---- MODULE Spec2Model ----
(***************************************************************************)
(* State-machine model of the supafast load-testing harness:               *)
(*   load generator -> bounded work queue -> worker pool -> reply channel, *)
(* with the MetricsCollector and BenchmarkCollector aggregators.           *)
(*                                                                         *)
(* Seven specifications share the module:                                  *)
(*   Spec         the harness wired as in main.rs                          *)
(*   LiveSpec     Spec under a fair scheduler                              *)
(*   MetricsSpec  MetricsCollector called from several threads             *)
(*   BenchSpec    BenchmarkCollector called from several threads           *)
(*   WorkerSpec   workers whose connections may go bad, fed any requests   *)
(*   ConfigSpec   ConfigManager called from several threads                *)
(*   GenSpec      LoadGenerator::generate with any pattern, under a clock  *)
(***************************************************************************)
EXTENDS Integers, Sequences, FiniteSets, TLC

(***************************************************************************)
(* Bounds of the model                                                     *)
(***************************************************************************)
\* worker_count (main.rs:23-25 takes it from available_parallelism)
NumWorkers == 2
\* total_requests handed to the load generator (main.rs:62 uses 1000)
TotalRequests == 3
\* queue slots per worker (main.rs:32 uses 100)
QueueSlotsPerWorker == 1
\* latencies are drawn from 1..MaxLatency nanoseconds in BenchSpec and from
\* 1..MaxWorkerLatency in the harness
MaxLatency == 2
MaxWorkerLatency == 1
\* threads calling an aggregator in MetricsSpec and BenchSpec
NumClients == 2
\* record_success/record_failure calls in MetricsSpec
MaxMetricCalls == 3
\* record_request calls in BenchSpec
MaxRecords == 3
\* the clock of BenchSpec runs from 0 to MaxTime
MaxTime == 1
\* requests handed to the workers in WorkerSpec
MaxFed == 4
\* update_config calls in ConfigSpec
MaxConfigCalls == 3
\* GenSpec: the clock runs from 0 to MaxGenTime seconds, rates of Constant,
\* Burst and Ramp are drawn from 1..MaxRps, durations from 0..MaxDurationSecs
MaxGenTime == 4
MaxRps == 2
MaxDurationSecs == 2

(***************************************************************************)
(* Threads                                                                 *)
(***************************************************************************)
NoThread == <<"none", 0>>
MainThread == <<"main", 0>>
Workers == {<<"w", i>> : i \in 1..NumWorkers}
Clients == {<<"c", i>> : i \in 1..NumClients}
Threads == Workers \cup Clients \cup {MainThread}

Latencies == 1..MaxLatency
WorkerLatencies == 1..MaxWorkerLatency

VARIABLES
    \* ---- harness (main.rs, load_gen.rs, worker.rs) ----
    withMetrics,    \* TRUE: spawn_worker_pool_with_metrics, FALSE: spawn_worker_pool
    gpc,            \* load generator: position in generate_constant
    gi,             \* load generator: loop index i
    greq,           \* load generator: the request it built and has not sent yet
    queue,          \* the Work Queue: (request, response_tx) pairs in FIFO order
    senders,        \* live Sender handles of the Work Queue
    receivers,      \* live Receiver handles of the Work Queue
    replyAlive,     \* index -> the reply Receiver (_response_rx) is not dropped
    replySlot,      \* index -> messages buffered in the reply channel
    replySends,     \* index -> calls of response_tx.send on its reply channel
    wpc,            \* worker -> position in run
    wreq,           \* worker -> the (request, response_tx) pair it dequeued
    wres,           \* worker -> result of process_request
    wlat,           \* worker -> latency measured around process_request
    cached,         \* worker -> cached_connection
    mainpc,         \* main: position
    \* history of the harness
    deq,            \* index -> times the pair was dequeued
    created,        \* index -> WorkResponses built for it
    wlog,           \* worker -> what process_request did for the current request
    queuedAtClose,  \* queue length when the last Sender was dropped
    replyErrSeen,   \* some response_tx.send found its Receiver dropped
    \* ---- MetricsCollector (metrics.rs) ----
    metrics,        \* the Metrics struct behind the mutex
    metricsLock,    \* holder of the mutex
    cpc,            \* client -> position in the call it is making
    msnaps,         \* the last two values returned by get_snapshot, in order
    mcalls,         \* record_success/record_failure calls started by clients
    \* ---- BenchmarkCollector (benchmark.rs) ----
    start_time,
    latencies,
    total_requests,
    successful_requests,
    failed_requests,
    latLock,        \* holder of the latencies mutex
    slocal,         \* thread -> locals of its get_stats call
    bret,           \* thread -> last BenchmarkStats returned to it
    now,            \* the monotonic clock
    \* history of the collector
    builtAt,        \* clock value at construction
    pushCount,      \* latencies pushed so far
    recDone,        \* <<returned record_request(.., true), (.., false)>>
    resetSeen,      \* some reset has started
    resetsActive,   \* reset calls in progress
    bclean,         \* a reset cleared the samples and nothing was pushed since
    \* ---- a worker's connection (worker.rs, pool.rs), in WorkerSpec ----
    connBad,        \* worker -> every unit of work on its cached handle fails
    wprev,          \* worker -> status of the response it sent last
    badFails,       \* worker -> requests that failed on a bad cached handle
    acquired,       \* worker -> handles db_pool.get() has given it
    fed,            \* requests handed to the workers so far
    \* ---- ConfigManager (config.rs), in ConfigSpec ----
    config,         \* the SharedConfig behind the RwLock
    configLock,     \* holder of the write lock
    cfgGot,         \* client -> what its last getter call read and returned
    cfgPassed,      \* the triples passed to update_config so far
    cfgCalls,       \* update_config calls started so far
    \* ---- LoadGenerator::generate with its pattern (load_gen.rs), in GenSpec ----
    pattern,        \* the LoadPattern
    interval,       \* the Duration computed for the coming sleep, in ns
    sleepAt,        \* clock value when the current sleep began
    ghist           \* history of the generation run

harnessVars == <<withMetrics, gpc, gi, greq, queue, senders, receivers,
                 replyAlive, replySlot, replySends, wpc, wreq, wres, wlat,
                 cached, mainpc, deq, created, wlog, queuedAtClose,
                 replyErrSeen>>
metricsVars == <<metrics, metricsLock, msnaps>>
clientVars  == <<cpc, mcalls>>
benchVars   == <<start_time, latencies, total_requests, successful_requests,
                 failed_requests, latLock, slocal, bret, now, builtAt,
                 pushCount, recDone, resetSeen, resetsActive, bclean>>
connVars    == <<connBad, wprev, badFails, acquired, fed>>
cfgVars     == <<config, configLock, cfgGot, cfgPassed, cfgCalls>>
loadVars    == <<pattern, interval, sleepAt, ghist>>
extVars     == <<connVars, cfgVars, loadVars>>
otherThanConn == <<cfgVars, loadVars>>
otherThanCfg  == <<connVars, loadVars>>
otherThanLoad == <<connVars, cfgVars>>
vars == <<harnessVars, metricsVars, clientVars, benchVars, extVars>>

(***************************************************************************)
(* models.rs                                                               *)
(***************************************************************************)
ResponseStatus == {"Completed", "Failed", "Invalid", "ConnectionError"}

\* WorkResponse::success
WorkResponse_success(id) ==
    [success |-> TRUE, id |-> id, status |-> "Completed"]

\* WorkResponse::failure
WorkResponse_failure(id, status) ==
    [success |-> FALSE, id |-> id, status |-> status]

NoResponse == [success |-> FALSE, id |-> <<>>, status |-> "none"]

\* The ids a request factory may give the request of index i: the empty
\* string, or "req-i" as main's factory formats it.
FactoryIds(i) == {<<>>, <<"req-", i>>}

(***************************************************************************)
(* worker.rs: Worker                                                       *)
(***************************************************************************)
NoConn == "None"
SomeConn == "Some"

Ok(v) == [ok |-> TRUE, val |-> v, err |-> "none"]
Err(e) == [ok |-> FALSE, val |-> NoResponse, err |-> e]

\* Worker::validate_request
validate_request(id) ==
    IF Len(id) = 0 THEN Err("ValidationError") ELSE Ok(NoResponse)

\* Faulty variant of get_connection: asks the pool on every call.
get_connection_AlwaysAsks(cache, poolOk) ==
    IF poolOk
    THEN [res |-> Ok(NoResponse), cache |-> SomeConn, pool_get |-> "ok"]
    ELSE [res |-> Err("ConnectionError"), cache |-> NoConn, pool_get |-> "err"]

\* Worker::get_connection; poolOk is the outcome of db_pool.get() if called.
get_connection(cache, poolOk) ==
    IF cache = NoConn
    THEN IF poolOk
         THEN [res |-> Ok(NoResponse), cache |-> SomeConn, pool_get |-> "ok"]
         ELSE [res |-> Err("ConnectionError"), cache |-> NoConn, pool_get |-> "err"]
    ELSE [res |-> Ok(NoResponse), cache |-> cache, pool_get |-> "none"]

\* Faulty variant of process_request_internal: acquires the connection
\* before validating the request.
process_request_internal_AcquireFirst(cache, id, poolOk, execOk) ==
    LET c == get_connection(cache, poolOk)
        v == validate_request(id)
    IN
    IF ~c.res.ok
    THEN [res |-> c.res, cache |-> c.cache, pool_get |-> c.pool_get,
          exec |-> "none"]
    ELSE IF ~v.ok
         THEN [res |-> v, cache |-> c.cache, pool_get |-> c.pool_get,
               exec |-> "none"]
         ELSE IF execOk
              THEN [res |-> Ok(WorkResponse_success(id)), cache |-> c.cache,
                    pool_get |-> c.pool_get, exec |-> "ok"]
              ELSE [res |-> Err("DatabaseError"), cache |-> c.cache,
                    pool_get |-> c.pool_get, exec |-> "err"]

\* Worker::process_request_internal; execOk is the outcome of the INSERT if
\* it is executed.
process_request_internal(cache, id, poolOk, execOk) ==
    LET v == validate_request(id) IN
    IF ~v.ok
    THEN [res |-> v, cache |-> cache, pool_get |-> "none", exec |-> "none"]
    ELSE LET c == get_connection(cache, poolOk) IN
         IF ~c.res.ok
         THEN [res |-> c.res, cache |-> c.cache, pool_get |-> c.pool_get,
               exec |-> "none"]
         ELSE IF execOk
              THEN [res |-> Ok(WorkResponse_success(id)), cache |-> c.cache,
                    pool_get |-> c.pool_get, exec |-> "ok"]
              ELSE [res |-> Err("DatabaseError"), cache |-> c.cache,
                    pool_get |-> c.pool_get, exec |-> "err"]

\* Faulty variant of StatusOfError: the ValidationError and DatabaseError
\* arms swapped.
StatusOfError_Swapped(e) ==
    CASE e = "ValidationError" -> "Failed"
      [] e = "ConnectionError" -> "ConnectionError"
      [] e = "DatabaseError"   -> "Invalid"
      [] e = "ProcessingError" -> "Failed"

\* the match of process_request that classifies a WorkerError
StatusOfError(e) ==
    CASE e = "ValidationError" -> "Invalid"
      [] e = "ConnectionError" -> "ConnectionError"
      [] e = "DatabaseError"   -> "Failed"
      [] e = "ProcessingError" -> "Failed"

\* Faulty variant of process_request: a ConnectionError leaves a handle in
\* the cache.
process_request_KeepStale(cache, id, poolOk, execOk) ==
    LET r == process_request_internal(cache, id, poolOk, execOk) IN
    IF r.res.ok
    THEN [response |-> r.res.val, cache |-> r.cache,
          pool_get |-> r.pool_get, exec |-> r.exec]
    ELSE [response |-> WorkResponse_failure(id, StatusOfError(r.res.err)),
          cache |-> IF r.res.err = "ConnectionError" THEN SomeConn ELSE r.cache,
          pool_get |-> r.pool_get, exec |-> r.exec]

\* Worker::process_request
process_request(cache, id, poolOk, execOk) ==
    LET r == process_request_internal(cache, id, poolOk, execOk) IN
    IF r.res.ok
    THEN [response |-> r.res.val, cache |-> r.cache,
          pool_get |-> r.pool_get, exec |-> r.exec]
    ELSE [response |-> WorkResponse_failure(id, StatusOfError(r.res.err)),
          cache |-> IF r.res.err = "ConnectionError" THEN NoConn ELSE r.cache,
          pool_get |-> r.pool_get, exec |-> r.exec]

(***************************************************************************)
(* metrics.rs: MetricsCollector.  A call is split where another thread     *)
(* could run: the guard is taken in the first step and dropped in the last.*)
(***************************************************************************)
\* Metrics::default
Metrics_default ==
    [total_processed |-> 0, total_succeeded |-> 0, total_failed |-> 0]

\* record_success / record_failure: self.metrics.lock(); total_processed += 1
record_lock(t) ==
    /\ metricsLock = NoThread
    /\ metricsLock' = t
    /\ metrics' = [metrics EXCEPT !.total_processed = @ + 1]
    /\ UNCHANGED msnaps

\* record_success: total_succeeded += 1; the guard is dropped on return
record_success_finish(t) ==
    /\ metricsLock = t
    /\ metrics' = [metrics EXCEPT !.total_succeeded = @ + 1]
    /\ metricsLock' = NoThread
    /\ UNCHANGED msnaps

\* record_failure: total_failed += 1; the guard is dropped on return
record_failure_finish(t) ==
    /\ metricsLock = t
    /\ metrics' = [metrics EXCEPT !.total_failed = @ + 1]
    /\ metricsLock' = NoThread
    /\ UNCHANGED msnaps

KeepLastTwo(s, x) == IF Len(s) = 2 THEN <<s[2], x>> ELSE Append(s, x)

\* Faulty variant of get_snapshot: reads the counters without the mutex.
get_snapshot_Unlocked(t) ==
    /\ msnaps' = KeepLastTwo(msnaps, metrics)
    /\ UNCHANGED <<metrics, metricsLock>>

\* get_snapshot: lock, clone, drop the guard
get_snapshot(t) ==
    /\ metricsLock = NoThread
    /\ msnaps' = KeepLastTwo(msnaps, metrics)
    /\ UNCHANGED <<metrics, metricsLock>>

(***************************************************************************)
(* benchmark.rs: BenchmarkCollector.  Four mutexes guard the sample list   *)
(* and the three counters.  Only the latencies guard is ever held across   *)
(* statements (by record_request), so it is the only one modelled as a     *)
(* variable; a counter's guard is a temporary of one statement, which is   *)
(* one step here.                                                          *)
(***************************************************************************)
RECURSIVE Insert(_, _)
Insert(x, s) ==
    IF s = <<>> THEN <<x>>
    ELSE IF x <= Head(s) THEN <<x>> \o s
    ELSE <<Head(s)>> \o Insert(x, Tail(s))

\* Faulty variant of Sort: leaves the samples in arrival order.
SortUnsorted(s) == s

\* latencies.sort()
RECURSIVE Sort(_)
Sort(s) == IF s = <<>> THEN <<>> ELSE Insert(Head(s), Sort(Tail(s)))

RECURSIVE Sum(_)
Sum(s) == IF s = <<>> THEN 0 ELSE Head(s) + Sum(Tail(s))

Min2(a, b) == IF a <= b THEN a ELSE b

\* (latencies.len() as f64 * 0.pp) as usize; the product is floored, and for
\* every len up to 20000 the f64 result equals the integer one below
PercentileIdx(len, pp) == (len * pp) \div 100

\* f64 quotient num / den, kept as the pair
Ratio(num, den) == <<num, den>>
ZeroF64 == <<0, 1>>

\* get_stats from "if latencies.is_empty()" on: the statistics of the local
\* copy of the samples and the three counters read before
ComputeStats(lats, total_duration, total, successful, failed) ==
    IF lats = <<>>
    THEN [total_requests |-> total, successful_requests |-> successful,
          failed_requests |-> failed, total_duration |-> total_duration,
          min_latency |-> 0, max_latency |-> 0, avg_latency |-> 0,
          p50_latency |-> 0, p95_latency |-> 0, p99_latency |-> 0,
          throughput_rps |-> ZeroF64]
    ELSE LET sorted == Sort(lats)
             n == Len(sorted)
         IN [total_requests |-> total, successful_requests |-> successful,
             failed_requests |-> failed, total_duration |-> total_duration,
             min_latency |-> sorted[1],
             max_latency |-> sorted[n],
             avg_latency |-> Sum(sorted) \div n,
             p50_latency |-> sorted[Min2(PercentileIdx(n, 50), n - 1) + 1],
             p95_latency |-> sorted[Min2(PercentileIdx(n, 95), n - 1) + 1],
             p99_latency |-> sorted[Min2(PercentileIdx(n, 99), n - 1) + 1],
             throughput_rps |-> IF total_duration > 0
                                THEN Ratio(total, total_duration)
                                ELSE ZeroF64]

NoLocal == [at |-> "none"]
NoStats == [at |-> "none"]

\* record_request: self.latencies.lock(); latencies.push(latency)
record_push(t, latency) ==
    /\ latLock = NoThread
    /\ latLock' = t
    /\ latencies' = Append(latencies, latency)
    /\ pushCount' = pushCount + 1
    /\ bclean' = FALSE
    /\ UNCHANGED <<start_time, total_requests, successful_requests,
                   failed_requests, slocal, bret, now, builtAt, recDone,
                   resetSeen, resetsActive>>

\* record_request: *self.total_requests.lock() += 1
record_total(t) ==
    /\ latLock = t
    /\ total_requests' = total_requests + 1
    /\ UNCHANGED <<start_time, latencies, successful_requests,
                   failed_requests, latLock, slocal, bret, now, builtAt,
                   pushCount, recDone, resetSeen, resetsActive, bclean>>

\* Faulty variant of record_outcome: counts every request as successful.
record_outcome_AlwaysSuccess(t, success) ==
    /\ latLock = t
    /\ successful_requests' = successful_requests + 1
    /\ UNCHANGED failed_requests
    /\ latLock' = NoThread
    /\ recDone' = IF success THEN <<recDone[1] + 1, recDone[2]>>
                             ELSE <<recDone[1], recDone[2] + 1>>
    /\ UNCHANGED <<start_time, latencies, total_requests, slocal, bret, now,
                   builtAt, pushCount, resetSeen, resetsActive, bclean>>

\* record_request: the if/else on success; the latencies guard is dropped
\* on return
record_outcome(t, success) ==
    /\ latLock = t
    /\ IF success
       THEN /\ successful_requests' = successful_requests + 1
            /\ UNCHANGED failed_requests
       ELSE /\ failed_requests' = failed_requests + 1
            /\ UNCHANGED successful_requests
    /\ latLock' = NoThread
    /\ recDone' = IF success THEN <<recDone[1] + 1, recDone[2]>>
                             ELSE <<recDone[1], recDone[2] + 1>>
    /\ UNCHANGED <<start_time, latencies, total_requests, slocal, bret, now,
                   builtAt, pushCount, resetSeen, resetsActive, bclean>>

\* get_stats: let mut latencies = self.latencies.lock().clone(); the guard
\* is a temporary, dropped at the end of the statement
stats_clone(t) ==
    /\ latLock = NoThread
    /\ slocal' = [slocal EXCEPT ![t] =
                    [at |-> "cloned", latencies |-> latencies,
                     pushAt |-> pushCount, doneAt |-> recDone,
                     afterReset |-> bclean /\ resetsActive = 0]]
    /\ UNCHANGED <<start_time, latencies, total_requests, successful_requests,
                   failed_requests, latLock, bret, now, builtAt, pushCount,
                   recDone, resetSeen, resetsActive, bclean>>

\* get_stats: let total_duration = self.start_time.elapsed()
stats_elapsed(t) ==
    /\ slocal[t].at = "cloned"
    /\ slocal' = [slocal EXCEPT ![t] =
                    [at |-> "timed", latencies |-> slocal[t].latencies,
                     pushAt |-> slocal[t].pushAt, doneAt |-> slocal[t].doneAt,
                     afterReset |-> slocal[t].afterReset,
                     total_duration |-> now - start_time]]
    /\ UNCHANGED <<start_time, latencies, total_requests, successful_requests,
                   failed_requests, latLock, bret, now, builtAt, pushCount,
                   recDone, resetSeen, resetsActive, bclean>>

\* get_stats: let total_requests = *self.total_requests.lock()
stats_total(t) ==
    /\ slocal[t].at = "timed"
    /\ slocal' = [slocal EXCEPT ![t] =
                    [at |-> "total", latencies |-> slocal[t].latencies,
                     pushAt |-> slocal[t].pushAt, doneAt |-> slocal[t].doneAt,
                     afterReset |-> slocal[t].afterReset,
                     total_duration |-> slocal[t].total_duration,
                     total_requests |-> total_requests]]
    /\ UNCHANGED <<start_time, latencies, total_requests, successful_requests,
                   failed_requests, latLock, bret, now, builtAt, pushCount,
                   recDone, resetSeen, resetsActive, bclean>>

\* get_stats: let successful_requests = *self.successful_requests.lock()
stats_successful(t) ==
    /\ slocal[t].at = "total"
    /\ slocal' = [slocal EXCEPT ![t] =
                    [at |-> "successful", latencies |-> slocal[t].latencies,
                     pushAt |-> slocal[t].pushAt, doneAt |-> slocal[t].doneAt,
                     afterReset |-> slocal[t].afterReset,
                     total_duration |-> slocal[t].total_duration,
                     total_requests |-> slocal[t].total_requests,
                     successful_requests |-> successful_requests]]
    /\ UNCHANGED <<start_time, latencies, total_requests, successful_requests,
                   failed_requests, latLock, bret, now, builtAt, pushCount,
                   recDone, resetSeen, resetsActive, bclean>>

\* get_stats: let failed_requests = *self.failed_requests.lock(), and the
\* rest of the function, which works on locals only.  The value returned is
\* kept with what the call saw: the samples it copied, and whether a
\* record_request pushed or a reset ran while it was in progress.
stats_failed(t) ==
    /\ slocal[t].at = "successful"
    /\ bret' = [bret EXCEPT ![t] =
                  [at |-> "returned",
                   stats |-> ComputeStats(slocal[t].latencies,
                                          slocal[t].total_duration,
                                          slocal[t].total_requests,
                                          slocal[t].successful_requests,
                                          failed_requests),
                   samples |-> slocal[t].latencies,
                   quiet |-> (pushCount = slocal[t].pushAt),
                   doneAt |-> slocal[t].doneAt,
                   noReset |-> ~resetSeen,
                   afterReset |-> slocal[t].afterReset
                                  /\ pushCount = slocal[t].pushAt]]
    /\ slocal' = [slocal EXCEPT ![t] = NoLocal]
    /\ UNCHANGED <<start_time, latencies, total_requests, successful_requests,
                   failed_requests, latLock, now, builtAt, pushCount,
                   recDone, resetSeen, resetsActive, bclean>>

\* reset: self.latencies.lock().clear(); the guard is a temporary
reset_clear(t) ==
    /\ latLock = NoThread
    /\ latencies' = <<>>
    /\ resetSeen' = TRUE
    /\ resetsActive' = resetsActive + 1
    /\ bclean' = TRUE
    /\ UNCHANGED <<start_time, total_requests, successful_requests,
                   failed_requests, latLock, slocal, bret, now, builtAt,
                   pushCount, recDone>>

\* reset: *self.total_requests.lock() = 0
reset_total(t) ==
    /\ total_requests' = 0
    /\ UNCHANGED <<start_time, latencies, successful_requests,
                   failed_requests, latLock, slocal, bret, now, builtAt,
                   pushCount, recDone, resetSeen, resetsActive, bclean>>

\* reset: *self.successful_requests.lock() = 0
reset_successful(t) ==
    /\ successful_requests' = 0
    /\ UNCHANGED <<start_time, latencies, total_requests, failed_requests,
                   latLock, slocal, bret, now, builtAt, pushCount, recDone,
                   resetSeen, resetsActive, bclean>>

\* Faulty variant of reset_failed: leaves failed_requests as it was.
reset_failed_Skipped(t) ==
    /\ resetsActive' = resetsActive - 1
    /\ UNCHANGED <<start_time, latencies, total_requests, successful_requests,
                   failed_requests, latLock, slocal, bret, now, builtAt,
                   pushCount, recDone, resetSeen, bclean>>

\* reset: *self.failed_requests.lock() = 0, and return
reset_failed(t) ==
    /\ failed_requests' = 0
    /\ resetsActive' = resetsActive - 1
    /\ UNCHANGED <<start_time, latencies, total_requests, successful_requests,
                   latLock, slocal, bret, now, builtAt, pushCount, recDone,
                   resetSeen, bclean>>

(***************************************************************************)
(* The harness: main.rs wires one generator thread, worker_count worker    *)
(* threads and the main thread around the bounded Work Queue.  A request   *)
(* travels with the index of its reply channel: the generator builds the   *)
(* pair, the queue carries it, the worker that dequeues it owns it until   *)
(* it has sent the response.                                               *)
(***************************************************************************)
Indices == 0..(TotalRequests - 1)
NoRequest == [index |-> -1, id |-> <<>>]
NoLog == [pool_get |-> "none", exec |-> "none", cacheBefore |-> NoConn]

\* main.rs:32: let queue_capacity = worker_count * 100
queue_capacity == NumWorkers * QueueSlotsPerWorker

\* Faulty variant of SendBlocks: a channel without a capacity.
SendBlocks_Unbounded(q) == FALSE

\* crossbeam bounded channel: send blocks while the channel is full
SendBlocks(q) == Len(q) >= queue_capacity

\* Faulty variant of RecvDisconnected: reports disconnection while
\* requests are still queued.
RecvDisconnected_Eager(q, tx) == tx = {}

\* crossbeam channel: recv returns Err once the channel is empty and every
\* Sender is dropped; until then an empty channel blocks
RecvDisconnected(q, tx) == q = <<>> /\ tx = {}

\* ---- load_gen.rs: LoadGenerator::generate_constant ----
\* loop head with i < total_requests: request_factory(i), bounded(1)
GenFactory ==
    /\ gpc = "loop"
    /\ gi < TotalRequests
    /\ \E id \in FactoryIds(gi) : greq' = [index |-> gi, id |-> id]
    /\ replyAlive' = [replyAlive EXCEPT ![gi] = TRUE]
    /\ gpc' = "send"
    /\ UNCHANGED <<withMetrics, gi, queue, senders, receivers, replySlot,
                   replySends, wpc, wreq, wres, wlat, cached, mainpc, deq,
                   created, wlog, queuedAtClose, replyErrSeen>>
    /\ UNCHANGED <<metricsVars, clientVars, benchVars>>
    /\ UNCHANGED extVars

\* work_sender.send((request, response_tx)): Err breaks out of the loop,
\* dropping the pair and the reply Receiver
GenSend ==
    /\ gpc = "send"
    /\ IF receivers = {}
       THEN /\ gpc' = "break"
            /\ replyAlive' = [replyAlive EXCEPT ![gi] = FALSE]
            /\ UNCHANGED queue
       ELSE /\ ~SendBlocks(queue)
            /\ queue' = Append(queue, greq)
            /\ gpc' = "sleep"
            /\ UNCHANGED replyAlive
    /\ greq' = NoRequest
    /\ UNCHANGED <<withMetrics, gi, senders, receivers, replySlot,
                   replySends, wpc, wreq, wres, wlat, cached, mainpc, deq,
                   created, wlog, queuedAtClose, replyErrSeen>>
    /\ UNCHANGED <<metricsVars, clientVars, benchVars>>
    /\ UNCHANGED extVars

\* thread::sleep(interval); the iteration ends and _response_rx is dropped,
\* and with it a response waiting in the slot
GenSleep ==
    /\ gpc = "sleep"
    /\ replyAlive' = [replyAlive EXCEPT ![gi] = FALSE]
    /\ replySlot' = [replySlot EXCEPT ![gi] = 0]
    /\ gi' = gi + 1
    /\ gpc' = "loop"
    /\ UNCHANGED <<withMetrics, greq, queue, senders, receivers, replySends,
                   wpc, wreq, wres, wlat, cached, mainpc, deq, created, wlog,
                   queuedAtClose, replyErrSeen>>
    /\ UNCHANGED <<metricsVars, clientVars, benchVars>>
    /\ UNCHANGED extVars

\* the loop is over: generate_constant returns and drops work_sender, the
\* generator thread ends
GenReturn ==
    /\ gpc \in {"loop", "break"}
    /\ gpc = "loop" => gi >= TotalRequests
    /\ gpc' = "done"
    /\ senders' = senders \ {"gen"}
    /\ queuedAtClose' = IF senders' = {} THEN Len(queue) ELSE queuedAtClose
    /\ UNCHANGED <<withMetrics, gi, greq, queue, receivers, replyAlive,
                   replySlot, replySends, wpc, wreq, wres, wlat, cached,
                   mainpc, deq, created, wlog, replyErrSeen>>
    /\ UNCHANGED <<metricsVars, clientVars, benchVars>>
    /\ UNCHANGED extVars

\* ---- worker.rs: Worker::run and WorkerWithMetrics::run ----
\* self.work_queue.recv() returns Ok((request, response_tx))
WRecv(w) ==
    /\ wpc[w] = "recv"
    /\ queue # <<>>
    /\ wreq' = [wreq EXCEPT ![w] = Head(queue)]
    /\ queue' = Tail(queue)
    /\ deq' = [deq EXCEPT ![Head(queue).index] = @ + 1]
    /\ wpc' = [wpc EXCEPT ![w] = "process"]
    /\ UNCHANGED <<withMetrics, gpc, gi, greq, senders, receivers,
                   replyAlive, replySlot, replySends, wres, wlat, cached,
                   mainpc, created, wlog, queuedAtClose, replyErrSeen>>
    /\ UNCHANGED <<metricsVars, clientVars, benchVars>>
    /\ UNCHANGED extVars

\* self.work_queue.recv() returns Err: the loop ends, run returns and the
\* worker, with its Receiver, is dropped
WExit(w) ==
    /\ wpc[w] = "recv"
    /\ RecvDisconnected(queue, senders)
    /\ wpc' = [wpc EXCEPT ![w] = "done"]
    /\ receivers' = receivers \ {w}
    /\ UNCHANGED <<withMetrics, gpc, gi, greq, queue, senders, replyAlive,
                   replySlot, replySends, wreq, wres, wlat, cached, mainpc,
                   deq, created, wlog, queuedAtClose, replyErrSeen>>
    /\ UNCHANGED <<metricsVars, clientVars, benchVars>>
    /\ UNCHANGED extVars

\* Faulty variant of WProcess: a failed request ends the worker's loop.
WProcess_DieOnFailure(w) ==
    /\ wpc[w] = "process"
    /\ \E poolOk \in BOOLEAN, execOk \in BOOLEAN, lat \in WorkerLatencies :
         LET p == process_request(cached[w], wreq[w].id, poolOk, execOk)
         IN /\ wres' = [wres EXCEPT ![w] = p.response]
            /\ cached' = [cached EXCEPT ![w] = p.cache]
            /\ wlog' = [wlog EXCEPT ![w] =
                          [pool_get |-> p.pool_get, exec |-> p.exec,
                           cacheBefore |-> cached[w]]]
            /\ wlat' = [wlat EXCEPT ![w] = IF withMetrics THEN lat ELSE 0]
            /\ wpc' = [wpc EXCEPT ![w] =
                         IF ~p.response.success THEN "done"
                         ELSE IF withMetrics THEN "metrics" ELSE "send"]
    /\ created' = [created EXCEPT ![wreq[w].index] = @ + 1]
    /\ UNCHANGED <<withMetrics, gpc, gi, greq, queue, senders, receivers,
                   replyAlive, replySlot, replySends, wreq, mainpc, deq,
                   queuedAtClose, replyErrSeen>>
    /\ UNCHANGED <<metricsVars, clientVars, benchVars>>
    /\ UNCHANGED extVars

\* Faulty variant of WProcess: the response is sent before anything is recorded.
WProcess_SendFirst(w) ==
    /\ wpc[w] = "process"
    /\ \E poolOk \in BOOLEAN, execOk \in BOOLEAN, lat \in WorkerLatencies :
         LET p == process_request(cached[w], wreq[w].id, poolOk, execOk)
         IN /\ wres' = [wres EXCEPT ![w] = p.response]
            /\ cached' = [cached EXCEPT ![w] = p.cache]
            /\ wlog' = [wlog EXCEPT ![w] =
                          [pool_get |-> p.pool_get, exec |-> p.exec,
                           cacheBefore |-> cached[w]]]
            /\ wlat' = [wlat EXCEPT ![w] = IF withMetrics THEN lat ELSE 0]
    /\ created' = [created EXCEPT ![wreq[w].index] = @ + 1]
    /\ wpc' = [wpc EXCEPT ![w] = "send"]
    /\ UNCHANGED <<withMetrics, gpc, gi, greq, queue, senders, receivers,
                   replyAlive, replySlot, replySends, wreq, mainpc, deq,
                   queuedAtClose, replyErrSeen>>
    /\ UNCHANGED <<metricsVars, clientVars, benchVars>>
    /\ UNCHANGED extVars

\* let result = self.process_request(&request), between Instant::now() and
\* start.elapsed() in WorkerWithMetrics.  The pool and the database are
\* outside the program: db_pool.get() and the INSERT may each succeed or
\* fail.
WProcess(w) ==
    /\ wpc[w] = "process"
    /\ \E poolOk \in BOOLEAN, execOk \in BOOLEAN, lat \in WorkerLatencies :
         LET p == process_request(cached[w], wreq[w].id, poolOk, execOk)
         IN /\ wres' = [wres EXCEPT ![w] = p.response]
            /\ cached' = [cached EXCEPT ![w] = p.cache]
            /\ wlog' = [wlog EXCEPT ![w] =
                          [pool_get |-> p.pool_get, exec |-> p.exec,
                           cacheBefore |-> cached[w]]]
            /\ wlat' = [wlat EXCEPT ![w] = IF withMetrics THEN lat ELSE 0]
    /\ created' = [created EXCEPT ![wreq[w].index] = @ + 1]
    /\ wpc' = [wpc EXCEPT ![w] = IF withMetrics THEN "metrics" ELSE "send"]
    /\ UNCHANGED <<withMetrics, gpc, gi, greq, queue, senders, receivers,
                   replyAlive, replySlot, replySends, wreq, mainpc, deq,
                   queuedAtClose, replyErrSeen>>
    /\ UNCHANGED <<metricsVars, clientVars, benchVars>>
    /\ UNCHANGED extVars

\* if result.success { record_success() } else { record_failure() }: entry
WMetricsLock(w) ==
    /\ wpc[w] = "metrics"
    /\ record_lock(w)
    /\ wpc' = [wpc EXCEPT ![w] = "metrics_locked"]
    /\ UNCHANGED <<withMetrics, gpc, gi, greq, queue, senders, receivers,
                   replyAlive, replySlot, replySends, wreq, wres, wlat,
                   cached, mainpc, deq, created, wlog, queuedAtClose,
                   replyErrSeen>>
    /\ UNCHANGED <<clientVars, benchVars>>
    /\ UNCHANGED extVars

\* Faulty variant of WMetricsFinish: records every request as a success.
WMetricsFinish_AlwaysSuccess(w) ==
    /\ wpc[w] = "metrics_locked"
    /\ record_success_finish(w)
    /\ wpc' = [wpc EXCEPT ![w] = "bench"]
    /\ UNCHANGED <<withMetrics, gpc, gi, greq, queue, senders, receivers,
                   replyAlive, replySlot, replySends, wreq, wres, wlat,
                   cached, mainpc, deq, created, wlog, queuedAtClose,
                   replyErrSeen>>
    /\ UNCHANGED <<clientVars, benchVars>>
    /\ UNCHANGED extVars

\* ... and the rest of record_success or record_failure
WMetricsFinish(w) ==
    /\ wpc[w] = "metrics_locked"
    /\ IF wres[w].success THEN record_success_finish(w)
                          ELSE record_failure_finish(w)
    /\ wpc' = [wpc EXCEPT ![w] = "bench"]
    /\ UNCHANGED <<withMetrics, gpc, gi, greq, queue, senders, receivers,
                   replyAlive, replySlot, replySends, wreq, wres, wlat,
                   cached, mainpc, deq, created, wlog, queuedAtClose,
                   replyErrSeen>>
    /\ UNCHANGED <<clientVars, benchVars>>
    /\ UNCHANGED extVars

\* benchmark.record_request(latency, result.success), statement by statement
WBenchPush(w) ==
    /\ wpc[w] = "bench"
    /\ record_push(w, wlat[w])
    /\ wpc' = [wpc EXCEPT ![w] = "bench_total"]
    /\ UNCHANGED <<withMetrics, gpc, gi, greq, queue, senders, receivers,
                   replyAlive, replySlot, replySends, wreq, wres, wlat,
                   cached, mainpc, deq, created, wlog, queuedAtClose,
                   replyErrSeen>>
    /\ UNCHANGED <<metricsVars, clientVars>>
    /\ UNCHANGED extVars

WBenchTotal(w) ==
    /\ wpc[w] = "bench_total"
    /\ record_total(w)
    /\ wpc' = [wpc EXCEPT ![w] = "bench_outcome"]
    /\ UNCHANGED <<withMetrics, gpc, gi, greq, queue, senders, receivers,
                   replyAlive, replySlot, replySends, wreq, wres, wlat,
                   cached, mainpc, deq, created, wlog, queuedAtClose,
                   replyErrSeen>>
    /\ UNCHANGED <<metricsVars, clientVars>>
    /\ UNCHANGED extVars

WBenchOutcome(w) ==
    /\ wpc[w] = "bench_outcome"
    /\ record_outcome(w, wres[w].success)
    /\ wpc' = [wpc EXCEPT ![w] = "send"]
    /\ UNCHANGED <<withMetrics, gpc, gi, greq, queue, senders, receivers,
                   replyAlive, replySlot, replySends, wreq, wres, wlat,
                   cached, mainpc, deq, created, wlog, queuedAtClose,
                   replyErrSeen>>
    /\ UNCHANGED <<metricsVars, clientVars>>
    /\ UNCHANGED extVars

\* Faulty variant of WSend: answers only successful requests.
WSend_OnlySuccess(w) ==
    /\ wpc[w] = "send"
    /\ LET r == wreq[w].index
           sent == wres[w].success
       IN /\ (sent /\ replyAlive[r]) => replySlot[r] < 1
          /\ replySends' = [replySends EXCEPT ![r] = IF sent THEN @ + 1 ELSE @]
          /\ replySlot' = [replySlot EXCEPT ![r] =
                             IF sent /\ replyAlive[r] THEN @ + 1 ELSE @]
          /\ replyErrSeen' = (replyErrSeen \/ (sent /\ ~replyAlive[r]))
    /\ wpc' = [wpc EXCEPT ![w] = "recv"]
    /\ wreq' = [wreq EXCEPT ![w] = NoRequest]
    /\ wres' = [wres EXCEPT ![w] = NoResponse]
    /\ wlog' = [wlog EXCEPT ![w] = NoLog]
    /\ wlat' = [wlat EXCEPT ![w] = 0]
    /\ UNCHANGED <<withMetrics, gpc, gi, greq, queue, senders, receivers,
                   replyAlive, cached, mainpc, deq, created, queuedAtClose>>
    /\ UNCHANGED <<metricsVars, clientVars, benchVars>>
    /\ UNCHANGED extVars

\* Faulty variant of WSend: the send waits for a Receiver that was dropped.
WSend_WaitsForReceiver(w) ==
    /\ wpc[w] = "send"
    /\ LET r == wreq[w].index IN
       /\ replyAlive[r] /\ replySlot[r] < 1
       /\ replySends' = [replySends EXCEPT ![r] = @ + 1]
       /\ replySlot' = [replySlot EXCEPT ![r] =
                          IF replyAlive[r] THEN @ + 1 ELSE @]
       /\ replyErrSeen' = (replyErrSeen \/ ~replyAlive[r])
    /\ wpc' = [wpc EXCEPT ![w] = "recv"]
    /\ wreq' = [wreq EXCEPT ![w] = NoRequest]
    /\ wres' = [wres EXCEPT ![w] = NoResponse]
    /\ wlog' = [wlog EXCEPT ![w] = NoLog]
    /\ wlat' = [wlat EXCEPT ![w] = 0]
    /\ UNCHANGED <<withMetrics, gpc, gi, greq, queue, senders, receivers,
                   replyAlive, cached, mainpc, deq, created, queuedAtClose>>
    /\ UNCHANGED <<metricsVars, clientVars, benchVars>>
    /\ UNCHANGED extVars

\* let _ = response_tx.send(result): on the one-slot reply channel the send
\* blocks while the slot is taken, and fails, ignored, once the Receiver is
\* dropped; the iteration ends, dropping request, result and response_tx
WSend(w) ==
    /\ wpc[w] = "send"
    /\ LET r == wreq[w].index IN
       /\ replyAlive[r] => replySlot[r] < 1
       /\ replySends' = [replySends EXCEPT ![r] = @ + 1]
       /\ replySlot' = [replySlot EXCEPT ![r] =
                          IF replyAlive[r] THEN @ + 1 ELSE @]
       /\ replyErrSeen' = (replyErrSeen \/ ~replyAlive[r])
    /\ wpc' = [wpc EXCEPT ![w] = "recv"]
    /\ wreq' = [wreq EXCEPT ![w] = NoRequest]
    /\ wres' = [wres EXCEPT ![w] = NoResponse]
    /\ wlog' = [wlog EXCEPT ![w] = NoLog]
    /\ wlat' = [wlat EXCEPT ![w] = 0]
    /\ UNCHANGED <<withMetrics, gpc, gi, greq, queue, senders, receivers,
                   replyAlive, cached, mainpc, deq, created, queuedAtClose>>
    /\ UNCHANGED <<metricsVars, clientVars, benchVars>>
    /\ UNCHANGED extVars

\* ---- main.rs: main, from the join of the load generator on ----
\* load_handle.join(), then the two-second sleep
MainJoinGenerator ==
    /\ mainpc = "join_generator"
    /\ gpc = "done"
    /\ mainpc' = IF withMetrics THEN "snapshot" ELSE "drop_tx"
    /\ UNCHANGED <<withMetrics, gpc, gi, greq, queue, senders, receivers,
                   replyAlive, replySlot, replySends, wpc, wreq, wres, wlat,
                   cached, deq, created, wlog, queuedAtClose, replyErrSeen>>
    /\ UNCHANGED <<metricsVars, clientVars, benchVars>>
    /\ UNCHANGED extVars

\* let snapshot = metrics.get_snapshot()
MainSnapshot ==
    /\ mainpc = "snapshot"
    /\ get_snapshot(MainThread)
    /\ mainpc' = "stats_clone"
    /\ UNCHANGED <<withMetrics, gpc, gi, greq, queue, senders, receivers,
                   replyAlive, replySlot, replySends, wpc, wreq, wres, wlat,
                   cached, deq, created, wlog, queuedAtClose, replyErrSeen>>
    /\ UNCHANGED <<clientVars, benchVars>>
    /\ UNCHANGED extVars

\* the snapshot is printed and not used again;
\* let stats = benchmark.get_stats(), statement by statement
MainStatsClone ==
    /\ mainpc = "stats_clone"
    /\ stats_clone(MainThread)
    /\ msnaps' = <<>>
    /\ mainpc' = "stats_elapsed"
    /\ UNCHANGED <<metrics, metricsLock>>
    /\ UNCHANGED <<withMetrics, gpc, gi, greq, queue, senders, receivers,
                   replyAlive, replySlot, replySends, wpc, wreq, wres, wlat,
                   cached, deq, created, wlog, queuedAtClose, replyErrSeen>>
    /\ UNCHANGED <<clientVars>>
    /\ UNCHANGED extVars

MainStatsElapsed ==
    /\ mainpc = "stats_elapsed"
    /\ stats_elapsed(MainThread)
    /\ mainpc' = "stats_total"
    /\ UNCHANGED <<withMetrics, gpc, gi, greq, queue, senders, receivers,
                   replyAlive, replySlot, replySends, wpc, wreq, wres, wlat,
                   cached, deq, created, wlog, queuedAtClose, replyErrSeen>>
    /\ UNCHANGED <<metricsVars, clientVars>>
    /\ UNCHANGED extVars

MainStatsTotal ==
    /\ mainpc = "stats_total"
    /\ stats_total(MainThread)
    /\ mainpc' = "stats_successful"
    /\ UNCHANGED <<withMetrics, gpc, gi, greq, queue, senders, receivers,
                   replyAlive, replySlot, replySends, wpc, wreq, wres, wlat,
                   cached, deq, created, wlog, queuedAtClose, replyErrSeen>>
    /\ UNCHANGED <<metricsVars, clientVars>>
    /\ UNCHANGED extVars

MainStatsSuccessful ==
    /\ mainpc = "stats_successful"
    /\ stats_successful(MainThread)
    /\ mainpc' = "stats_failed"
    /\ UNCHANGED <<withMetrics, gpc, gi, greq, queue, senders, receivers,
                   replyAlive, replySlot, replySends, wpc, wreq, wres, wlat,
                   cached, deq, created, wlog, queuedAtClose, replyErrSeen>>
    /\ UNCHANGED <<metricsVars, clientVars>>
    /\ UNCHANGED extVars

MainStatsFailed ==
    /\ mainpc = "stats_failed"
    /\ stats_failed(MainThread)
    /\ mainpc' = "drop_tx"
    /\ UNCHANGED <<withMetrics, gpc, gi, greq, queue, senders, receivers,
                   replyAlive, replySlot, replySends, wpc, wreq, wres, wlat,
                   cached, deq, created, wlog, queuedAtClose, replyErrSeen>>
    /\ UNCHANGED <<metricsVars, clientVars>>
    /\ UNCHANGED extVars

\* print_benchmark_report(&stats), after which stats is not used again; the
\* ConfigManager example; drop(tx)
MainDropTx ==
    /\ mainpc = "drop_tx"
    /\ bret' = [bret EXCEPT ![MainThread] = NoStats]
    /\ UNCHANGED <<start_time, latencies, total_requests, successful_requests,
                   failed_requests, latLock, slocal, now, builtAt, pushCount,
                   recDone, resetSeen, resetsActive, bclean>>
    /\ senders' = senders \ {"main"}
    /\ queuedAtClose' = IF senders' = {} THEN Len(queue) ELSE queuedAtClose
    /\ mainpc' = "join_workers"
    /\ UNCHANGED <<withMetrics, gpc, gi, greq, queue, receivers, replyAlive,
                   replySlot, replySends, wpc, wreq, wres, wlat, cached, deq,
                   created, wlog, replyErrSeen>>
    /\ UNCHANGED <<metricsVars, clientVars>>
    /\ UNCHANGED extVars

\* for handle in handles { handle.join() }
MainJoinWorkers ==
    /\ mainpc = "join_workers"
    /\ \A w \in Workers : wpc[w] = "done"
    /\ mainpc' = "done"
    /\ UNCHANGED <<withMetrics, gpc, gi, greq, queue, senders, receivers,
                   replyAlive, replySlot, replySends, wpc, wreq, wres, wlat,
                   cached, deq, created, wlog, queuedAtClose, replyErrSeen>>
    /\ UNCHANGED <<metricsVars, clientVars, benchVars>>
    /\ UNCHANGED extVars

(***************************************************************************)
(* Initial states                                                          *)
(***************************************************************************)
\* main.rs:30-71: the queue, the collectors, the workers and the generator
\* have been created; the generator owns tx.clone(), main keeps tx, every
\* worker owns a clone of rx and has no cached connection
HarnessInit ==
    /\ gpc = "loop"
    /\ gi = 0
    /\ greq = NoRequest
    /\ queue = <<>>
    /\ senders = {"main", "gen"}
    /\ receivers = Workers
    /\ replyAlive = [i \in Indices |-> FALSE]
    /\ replySlot = [i \in Indices |-> 0]
    /\ replySends = [i \in Indices |-> 0]
    /\ wpc = [w \in Workers |-> "recv"]
    /\ wreq = [w \in Workers |-> NoRequest]
    /\ wres = [w \in Workers |-> NoResponse]
    /\ wlat = [w \in Workers |-> 0]
    /\ wlog = [w \in Workers |-> NoLog]
    /\ cached = [w \in Workers |-> NoConn]
    /\ mainpc = "join_generator"
    /\ deq = [i \in Indices |-> 0]
    /\ created = [i \in Indices |-> 0]
    /\ queuedAtClose = -1
    /\ replyErrSeen = FALSE

\* MetricsCollector::new
MetricsInit ==
    /\ metrics = Metrics_default
    /\ metricsLock = NoThread
    /\ msnaps = <<>>

ClientInit ==
    /\ cpc = [c \in Clients |-> [at |-> "idle"]]
    /\ mcalls = 0

\* BenchmarkCollector::new
BenchInit ==
    /\ now = 0
    /\ start_time = now
    /\ builtAt = now
    /\ latencies = <<>>
    /\ total_requests = 0
    /\ successful_requests = 0
    /\ failed_requests = 0
    /\ latLock = NoThread
    /\ slocal = [t \in Threads |-> NoLocal]
    /\ bret = [t \in Threads |-> NoStats]
    /\ pushCount = 0
    /\ recDone = <<0, 0>>
    /\ resetSeen = FALSE
    /\ resetsActive = 0
    /\ bclean = FALSE

\* every worker starts without a handle and has sent nothing
ConnInit ==
    /\ connBad = [w \in Workers |-> FALSE]
    /\ wprev = [w \in Workers |-> "none"]
    /\ badFails = [w \in Workers |-> 0]
    /\ acquired = [w \in Workers |-> 0]
    /\ fed = 0

\* SharedConfig::default
SharedConfig_default == [max_retries |-> 3, timeout_ms |-> 5000, enabled |-> TRUE]

NoGot == [field |-> "none"]

\* ConfigManager::new
ConfigInit ==
    /\ config = SharedConfig_default
    /\ configLock = NoThread
    /\ cfgGot = [c \in Clients |-> NoGot]
    /\ cfgPassed = {}
    /\ cfgCalls = 0

\* nothing generated yet: calls of the factory, of send and of sleep so
\* far, the indices enqueued in order, the elapsed time at the last enqueue
\* and at the last loop head that started an iteration, the rate computed
\* there, the three counters as they were when a send failed, and the
\* duration generate returned
NoHist ==
    [factory |-> 0, sends |-> 0, sleeps |-> 0, enq |-> <<>>,
     lastEnqAt |-> -1, iterAt |-> -1, rate |-> <<0, 1>>,
     failed |-> FALSE, atFail |-> <<0, 0, 0>>, ret |-> -1]

\* main.rs:57: LoadPattern::Constant { rps: 100 }
MainPattern == [kind |-> "Constant", rps |-> 100]

LoadInit(p) ==
    /\ pattern = p
    /\ interval = 0
    /\ sleepAt = 0
    /\ ghist = NoHist

ExtInit == ConnInit /\ ConfigInit /\ LoadInit(MainPattern)

Init ==
    /\ withMetrics \in BOOLEAN
    /\ HarnessInit
    /\ MetricsInit
    /\ ClientInit
    /\ BenchInit
    /\ ExtInit

Generator == GenFactory \/ GenSend \/ GenSleep \/ GenReturn

Worker(w) ==
    \/ WRecv(w) \/ WExit(w) \/ WProcess(w)
    \/ WMetricsLock(w) \/ WMetricsFinish(w)
    \/ WBenchPush(w) \/ WBenchTotal(w) \/ WBenchOutcome(w)
    \/ WSend(w)

Main ==
    \/ MainJoinGenerator \/ MainSnapshot
    \/ MainStatsClone \/ MainStatsElapsed \/ MainStatsTotal
    \/ MainStatsSuccessful \/ MainStatsFailed
    \/ MainDropTx \/ MainJoinWorkers

Next == Generator \/ (\E w \in Workers : Worker(w)) \/ Main

Spec == Init /\ [][Next]_vars

\* The harness under a fair scheduler: as long as some thread can take a
\* step, a step is taken.  This is the least a scheduler guarantees, and it
\* follows from fairness to each thread; db_pool.get() and the INSERT
\* return (WProcess is one step).
Fairness == WF_vars(Next)

LiveSpec == Spec /\ Fairness


(***************************************************************************)
(* MetricsSpec: the clients call record_success, record_failure and        *)
(* get_snapshot on cloned handles of one MetricsCollector, in any order.   *)
(***************************************************************************)
Idle == [at |-> "idle"]

\* a client enters record_success or record_failure
CRecordLock(c) ==
    /\ cpc[c] = Idle
    /\ mcalls < MaxMetricCalls
    /\ record_lock(c)
    /\ \E f \in {"record_success", "record_failure"} :
         cpc' = [cpc EXCEPT ![c] = [at |-> f]]
    /\ mcalls' = mcalls + 1
    /\ UNCHANGED <<harnessVars, benchVars>>
    /\ UNCHANGED extVars

CRecordSuccessFinish(c) ==
    /\ cpc[c] = [at |-> "record_success"]
    /\ record_success_finish(c)
    /\ cpc' = [cpc EXCEPT ![c] = Idle]
    /\ UNCHANGED <<harnessVars, benchVars, mcalls>>
    /\ UNCHANGED extVars

CRecordFailureFinish(c) ==
    /\ cpc[c] = [at |-> "record_failure"]
    /\ record_failure_finish(c)
    /\ cpc' = [cpc EXCEPT ![c] = Idle]
    /\ UNCHANGED <<harnessVars, benchVars, mcalls>>
    /\ UNCHANGED extVars

CSnapshot(c) ==
    /\ cpc[c] = Idle
    /\ get_snapshot(c)
    /\ UNCHANGED <<harnessVars, benchVars, clientVars>>
    /\ UNCHANGED extVars

CollectorsInit ==
    /\ withMetrics = TRUE
    /\ HarnessInit
    /\ MetricsInit
    /\ ClientInit
    /\ BenchInit
    /\ ExtInit

MetricsNext ==
    \E c \in Clients :
        \/ CRecordLock(c)
        \/ CRecordSuccessFinish(c)
        \/ CRecordFailureFinish(c)
        \/ CSnapshot(c)

MetricsSpec == CollectorsInit /\ [][MetricsNext]_vars

(***************************************************************************)
(* BenchSpec: the clients call record_request, get_stats and reset on      *)
(* cloned handles of one BenchmarkCollector, in any order, while the clock *)
(* advances.                                                               *)
(***************************************************************************)
\* a client enters record_request(latency, success)
BRecordPush(c) ==
    /\ cpc[c] = Idle
    /\ pushCount < MaxRecords
    /\ \E latency \in Latencies, success \in BOOLEAN :
         /\ record_push(c, latency)
         /\ cpc' = [cpc EXCEPT ![c] = [at |-> "record_total",
                                       success |-> success]]
    /\ UNCHANGED <<harnessVars, metricsVars, mcalls>>
    /\ UNCHANGED extVars

BRecordTotal(c) ==
    /\ cpc[c].at = "record_total"
    /\ record_total(c)
    /\ cpc' = [cpc EXCEPT ![c] = [at |-> "record_outcome",
                                  success |-> cpc[c].success]]
    /\ UNCHANGED <<harnessVars, metricsVars, mcalls>>
    /\ UNCHANGED extVars

BRecordOutcome(c) ==
    /\ cpc[c].at = "record_outcome"
    /\ record_outcome(c, cpc[c].success)
    /\ cpc' = [cpc EXCEPT ![c] = Idle]
    /\ UNCHANGED <<harnessVars, metricsVars, mcalls>>
    /\ UNCHANGED extVars

\* a client enters get_stats
BStatsClone(c) ==
    /\ cpc[c] = Idle
    /\ stats_clone(c)
    /\ cpc' = [cpc EXCEPT ![c] = [at |-> "stats_elapsed"]]
    /\ UNCHANGED <<harnessVars, metricsVars, mcalls>>
    /\ UNCHANGED extVars

BStatsElapsed(c) ==
    /\ cpc[c].at = "stats_elapsed"
    /\ stats_elapsed(c)
    /\ cpc' = [cpc EXCEPT ![c] = [at |-> "stats_total"]]
    /\ UNCHANGED <<harnessVars, metricsVars, mcalls>>
    /\ UNCHANGED extVars

BStatsTotal(c) ==
    /\ cpc[c].at = "stats_total"
    /\ stats_total(c)
    /\ cpc' = [cpc EXCEPT ![c] = [at |-> "stats_successful"]]
    /\ UNCHANGED <<harnessVars, metricsVars, mcalls>>
    /\ UNCHANGED extVars

BStatsSuccessful(c) ==
    /\ cpc[c].at = "stats_successful"
    /\ stats_successful(c)
    /\ cpc' = [cpc EXCEPT ![c] = [at |-> "stats_failed"]]
    /\ UNCHANGED <<harnessVars, metricsVars, mcalls>>
    /\ UNCHANGED extVars

BStatsFailed(c) ==
    /\ cpc[c].at = "stats_failed"
    /\ stats_failed(c)
    /\ cpc' = [cpc EXCEPT ![c] = [at |-> "stats_returned"]]
    /\ UNCHANGED <<harnessVars, metricsVars, mcalls>>
    /\ UNCHANGED extVars

\* the caller is done with the BenchmarkStats it got
BStatsDrop(c) ==
    /\ cpc[c].at = "stats_returned"
    /\ bret' = [bret EXCEPT ![c] = NoStats]
    /\ cpc' = [cpc EXCEPT ![c] = Idle]
    /\ UNCHANGED <<start_time, latencies, total_requests, successful_requests,
                   failed_requests, latLock, slocal, now, builtAt, pushCount,
                   recDone, resetSeen, resetsActive, bclean>>
    /\ UNCHANGED <<harnessVars, metricsVars, mcalls>>
    /\ UNCHANGED extVars

\* a client enters reset
BResetClear(c) ==
    /\ cpc[c] = Idle
    /\ reset_clear(c)
    /\ cpc' = [cpc EXCEPT ![c] = [at |-> "reset_total"]]
    /\ UNCHANGED <<harnessVars, metricsVars, mcalls>>
    /\ UNCHANGED extVars

BResetTotal(c) ==
    /\ cpc[c].at = "reset_total"
    /\ reset_total(c)
    /\ cpc' = [cpc EXCEPT ![c] = [at |-> "reset_successful"]]
    /\ UNCHANGED <<harnessVars, metricsVars, mcalls>>
    /\ UNCHANGED extVars

BResetSuccessful(c) ==
    /\ cpc[c].at = "reset_successful"
    /\ reset_successful(c)
    /\ cpc' = [cpc EXCEPT ![c] = [at |-> "reset_failed"]]
    /\ UNCHANGED <<harnessVars, metricsVars, mcalls>>
    /\ UNCHANGED extVars

BResetFailed(c) ==
    /\ cpc[c].at = "reset_failed"
    /\ reset_failed(c)
    /\ cpc' = [cpc EXCEPT ![c] = Idle]
    /\ UNCHANGED <<harnessVars, metricsVars, mcalls>>
    /\ UNCHANGED extVars

\* the monotonic clock behind Instant::now() and elapsed()
Tick ==
    /\ now < MaxTime
    /\ now' = now + 1
    /\ UNCHANGED <<start_time, latencies, total_requests, successful_requests,
                   failed_requests, latLock, slocal, bret, builtAt,
                   pushCount, recDone, resetSeen, resetsActive, bclean>>
    /\ UNCHANGED <<harnessVars, metricsVars, clientVars>>
    /\ UNCHANGED extVars

BenchNext ==
    \/ \E c \in Clients :
        \/ BRecordPush(c) \/ BRecordTotal(c) \/ BRecordOutcome(c)
        \/ BStatsClone(c) \/ BStatsElapsed(c) \/ BStatsTotal(c)
        \/ BStatsSuccessful(c) \/ BStatsFailed(c) \/ BStatsDrop(c)
        \/ BResetClear(c) \/ BResetTotal(c) \/ BResetSuccessful(c)
        \/ BResetFailed(c)
    \/ Tick

BenchSpec == CollectorsInit /\ [][BenchNext]_vars


(***************************************************************************)
(* WorkerSpec: the workers of a pool without metrics, each handed requests *)
(* one after another, with the health of the cached handle made explicit.  *)
(* A handle is working when db_pool.get() returns it (pool.rs:13,          *)
(* test_on_check_out) and may go bad at any later time; on a bad handle    *)
(* every unit of work fails.                                               *)
(***************************************************************************)
\* self.work_queue.recv() returns Ok((request, response_tx)); the callers of
\* the pool may put any id into a request
KRecv(w) ==
    /\ wpc[w] = "recv"
    /\ fed < MaxFed
    /\ \E id \in FactoryIds(fed) :
         wreq' = [wreq EXCEPT ![w] = [index |-> fed, id |-> id]]
    /\ fed' = fed + 1
    /\ wpc' = [wpc EXCEPT ![w] = "process"]
    /\ UNCHANGED <<withMetrics, gpc, gi, greq, queue, senders, receivers,
                   replyAlive, replySlot, replySends, wres, wlat, cached,
                   mainpc, deq, created, wlog, queuedAtClose, replyErrSeen>>
    /\ UNCHANGED <<connBad, wprev, badFails, acquired>>
    /\ UNCHANGED <<metricsVars, clientVars, benchVars>>
    /\ UNCHANGED otherThanConn

\* Pool::builder().max_size((worker_count + 2) as u32)
max_size == NumWorkers + 2

\* the INSERT can succeed only on a working handle
ExecOutcomes(w) ==
    IF cached[w] = SomeConn /\ connBad[w] THEN {FALSE} ELSE BOOLEAN

\* let result = self.process_request(&request)
KProcess(w) ==
    /\ wpc[w] = "process"
    /\ \E poolOk \in BOOLEAN, execOk \in ExecOutcomes(w) :
         LET p == process_request(cached[w], wreq[w].id, poolOk, execOk)
         IN /\ wres' = [wres EXCEPT ![w] = p.response]
            /\ cached' = [cached EXCEPT ![w] = p.cache]
            /\ wlog' = [wlog EXCEPT ![w] =
                          [pool_get |-> p.pool_get, exec |-> p.exec,
                           cacheBefore |-> cached[w]]]
            /\ acquired' = [acquired EXCEPT ![w] =
                              IF p.pool_get = "ok" THEN @ + 1 ELSE @]
            /\ badFails' = [badFails EXCEPT ![w] =
                              IF p.exec = "err" /\ cached[w] = SomeConn
                                 /\ connBad[w]
                              THEN @ + 1 ELSE @]
            /\ connBad' = [connBad EXCEPT ![w] =
                             IF p.cache = NoConn THEN FALSE ELSE @]
    /\ wpc' = [wpc EXCEPT ![w] = "send"]
    /\ UNCHANGED <<withMetrics, gpc, gi, greq, queue, senders, receivers,
                   replyAlive, replySlot, replySends, wreq, wlat, mainpc,
                   deq, created, queuedAtClose, replyErrSeen>>
    /\ UNCHANGED <<wprev, fed>>
    /\ UNCHANGED <<metricsVars, clientVars, benchVars>>
    /\ UNCHANGED otherThanConn

\* let _ = response_tx.send(result); the iteration ends
KSend(w) ==
    /\ wpc[w] = "send"
    /\ wprev' = [wprev EXCEPT ![w] = wres[w].status]
    /\ wpc' = [wpc EXCEPT ![w] = "recv"]
    /\ wreq' = [wreq EXCEPT ![w] = NoRequest]
    /\ wres' = [wres EXCEPT ![w] = NoResponse]
    /\ wlog' = [wlog EXCEPT ![w] = NoLog]
    /\ UNCHANGED <<withMetrics, gpc, gi, greq, queue, senders, receivers,
                   replyAlive, replySlot, replySends, wlat, cached, mainpc,
                   deq, created, queuedAtClose, replyErrSeen>>
    /\ UNCHANGED <<connBad, badFails, acquired, fed>>
    /\ UNCHANGED <<metricsVars, clientVars, benchVars>>
    /\ UNCHANGED otherThanConn

\* the connection behind a worker's cached handle goes bad
ConnBreak(w) ==
    /\ cached[w] = SomeConn
    /\ ~connBad[w]
    /\ connBad' = [connBad EXCEPT ![w] = TRUE]
    /\ UNCHANGED <<wprev, badFails, acquired, fed>>
    /\ UNCHANGED <<harnessVars, metricsVars, clientVars, benchVars>>
    /\ UNCHANGED otherThanConn

WorkerInit ==
    /\ withMetrics = FALSE
    /\ HarnessInit
    /\ MetricsInit
    /\ ClientInit
    /\ BenchInit
    /\ ExtInit

WorkerNext ==
    \E w \in Workers : KRecv(w) \/ KProcess(w) \/ KSend(w) \/ ConnBreak(w)

WorkerSpec == WorkerInit /\ [][WorkerNext]_vars


(***************************************************************************)
(* ConfigSpec: the clients call update_config and the three getters on     *)
(* cloned handles of one ConfigManager, in any order.  update_config is    *)
(* split at its assignments; a getter takes the read lock, reads one field *)
(* and drops the lock within one statement.                                *)
(***************************************************************************)
\* the values a caller may pass; nothing validates them
ConfigArgs ==
    [max_retries : {0, 5}, timeout_ms : {0, 10000}, enabled : BOOLEAN]

ConfigFields == {"max_retries", "timeout_ms", "enabled"}

\* update_config: self.config.write(); config.max_retries = max_retries
UpdateConfigLock(c) ==
    /\ cpc[c] = Idle
    /\ cfgCalls < MaxConfigCalls
    /\ configLock = NoThread
    /\ \E a \in ConfigArgs :
         /\ cpc' = [cpc EXCEPT ![c] = [at |-> "update_timeout", args |-> a]]
         /\ config' = [config EXCEPT !.max_retries = a.max_retries]
         /\ cfgPassed' = cfgPassed \cup {a}
    /\ configLock' = c
    /\ cfgCalls' = cfgCalls + 1
    /\ UNCHANGED <<cfgGot, mcalls>>
    /\ UNCHANGED <<harnessVars, metricsVars, benchVars, otherThanCfg>>

\* update_config: config.timeout_ms = timeout_ms
UpdateConfigTimeout(c) ==
    /\ cpc[c].at = "update_timeout"
    /\ configLock = c
    /\ config' = [config EXCEPT !.timeout_ms = cpc[c].args.timeout_ms]
    /\ cpc' = [cpc EXCEPT ![c] = [at |-> "update_enabled", args |-> cpc[c].args]]
    /\ UNCHANGED <<configLock, cfgGot, cfgPassed, cfgCalls, mcalls>>
    /\ UNCHANGED <<harnessVars, metricsVars, benchVars, otherThanCfg>>

\* update_config: config.enabled = enabled; the write guard is dropped on
\* return
UpdateConfigEnabled(c) ==
    /\ cpc[c].at = "update_enabled"
    /\ configLock = c
    /\ config' = [config EXCEPT !.enabled = cpc[c].args.enabled]
    /\ configLock' = NoThread
    /\ cpc' = [cpc EXCEPT ![c] = Idle]
    /\ UNCHANGED <<cfgGot, cfgPassed, cfgCalls, mcalls>>
    /\ UNCHANGED <<harnessVars, metricsVars, benchVars, otherThanCfg>>

\* Faulty variant of ConfigGet: reads the field without the read lock.
ConfigGet_Unlocked(c) ==
    /\ cpc[c] = Idle
    /\ \E f \in ConfigFields :
         cfgGot' = [cfgGot EXCEPT ![c] =
                      [field |-> f, value |-> config[f], read |-> config]]
    /\ UNCHANGED <<config, configLock, cfgPassed, cfgCalls>>
    /\ UNCHANGED <<harnessVars, metricsVars, clientVars, benchVars,
                   otherThanCfg>>

\* is_enabled, get_max_retries, get_timeout_ms: self.config.read().<field>;
\* the read lock is granted only while no writer holds the lock
ConfigGet(c) ==
    /\ cpc[c] = Idle
    /\ configLock = NoThread
    /\ \E f \in ConfigFields :
         cfgGot' = [cfgGot EXCEPT ![c] =
                      [field |-> f, value |-> config[f], read |-> config]]
    /\ UNCHANGED <<config, configLock, cfgPassed, cfgCalls>>
    /\ UNCHANGED <<harnessVars, metricsVars, clientVars, benchVars,
                   otherThanCfg>>

ConfigNext ==
    \E c \in Clients :
        \/ UpdateConfigLock(c) \/ UpdateConfigTimeout(c)
        \/ UpdateConfigEnabled(c) \/ ConfigGet(c)

ConfigSpec == CollectorsInit /\ [][ConfigNext]_vars


(***************************************************************************)
(* GenSpec: LoadGenerator::generate with each of the four patterns, on a   *)
(* clock that counts whole seconds from the start of generation, feeding a *)
(* Work Queue whose receivers take requests at their own pace and may all  *)
(* be dropped.  The rates of Constant, Burst and Ramp are at least 1, so   *)
(* that 1/rps is a delay; Sine takes any base rate and amplitude.          *)
(***************************************************************************)
\* Duration counts nanoseconds
NanosPerSec == 1000000000

\* a rate whose delay is below half a nanosecond
BigRps == 2 * NanosPerSec + 1

Rates == 1..MaxRps
Durations == 0..MaxDurationSecs

ConstantPatterns == {[kind |-> "Constant", rps |-> r] : r \in Rates}

BurstPatterns ==
    {[kind |-> "Burst", rps |-> r, duration_secs |-> d] :
        r \in Rates, d \in Durations}

RampPatterns ==
    {[kind |-> "Ramp", start_rps |-> a, end_rps |-> b, duration_secs |-> d] :
        a \in Rates, b \in Rates, d \in Durations}

\* period_secs is 0 or 4, so that every whole second is a quarter of the
\* period, where the sine is 0, 1, 0 or -1
SinePatterns ==
    {[kind |-> "Sine", base_rps |-> b, amplitude |-> a, period_secs |-> q] :
        b \in (0..(MaxRps - 1)) \cup {BigRps}, a \in {0, MaxRps},
        q \in {0, 4}} \ {x \in [kind : {"Sine"}, base_rps : {BigRps},
                              amplitude : {MaxRps}, period_secs : {0, 4}] :
                           TRUE}

Patterns == ConstantPatterns \cup BurstPatterns \cup RampPatterns
               \cup SinePatterns

\* Duration::from_secs_f64 of the quotient r[1] / r[2] seconds, r[1] >= 0:
\* the nanoseconds, rounded to the nearest; the call panics, shown as -1,
\* when the quotient is infinite or negative (r[2] <= 0)
from_secs_f64(r) ==
    IF r[2] <= 0 THEN -1
    ELSE LET q == NanosPerSec \div r[2]
             m == NanosPerSec % r[2]
             whole == r[1] * q + (r[1] * m) \div r[2]
             rest == (r[1] * m) % r[2]
         IN IF rest >= r[2] - rest THEN whole + 1 ELSE whole

\* an f64 that is a whole number x is <<x>>, and NaN is the empty sequence
NaN == <<>>

\* sin(2 * PI * elapsed / period_secs) at a quarter of the period; NaN when
\* period_secs is 0 (0/0 and x/0 have no sine)
QuarterSine(elapsed, period_secs) ==
    IF period_secs = 0 THEN NaN
    ELSE LET k == ((4 * elapsed) \div period_secs) % 4
         IN IF k = 1 THEN <<1>> ELSE IF k = 3 THEN <<-1>> ELSE <<0>>

\* f64::max(x, 1.0), which is 1.0 for a NaN
FloorAtOne(x) == IF x = NaN THEN 1 ELSE IF x[1] < 1 THEN 1 ELSE x[1]

\* the unfloored rate of generate_sine (a NaN sine makes the sum a NaN)
SineRaw(p, elapsed) ==
    LET sn == QuarterSine(elapsed, p.period_secs)
    IN IF sn = NaN THEN NaN ELSE <<p.base_rps + p.amplitude * sn[1]>>

\* Faulty variant of current_rps: the Sine rate is not floored.
current_rps_Unfloored(p, elapsed) ==
    CASE p.kind \in {"Constant", "Burst"} -> Ratio(p.rps, 1)
      [] p.kind = "Ramp" ->
            IF p.duration_secs = 0 THEN Ratio(p.end_rps, 1)
            ELSE LET e == Min2(elapsed, p.duration_secs)
                 IN Ratio(p.start_rps * p.duration_secs
                            + (p.end_rps - p.start_rps) * e,
                          p.duration_secs)
      [] p.kind = "Sine" ->
            LET x == SineRaw(p, elapsed)
            IN Ratio(IF x = NaN THEN 1 ELSE x[1], 1)

\* the rate, in requests per second, from which the pattern computes the
\* delay of an iteration that starts at the given elapsed time.  Ramp:
\* progress is elapsed / duration clamped to 1, and 1 when duration is 0
\* (x/0 is infinite and 0/0 a NaN, and min(_, 1.0) gives 1.0 for both)
current_rps(p, elapsed) ==
    CASE p.kind \in {"Constant", "Burst"} -> Ratio(p.rps, 1)
      [] p.kind = "Ramp" ->
            IF p.duration_secs = 0 THEN Ratio(p.end_rps, 1)
            ELSE LET e == Min2(elapsed, p.duration_secs)
                 IN Ratio(p.start_rps * p.duration_secs
                            + (p.end_rps - p.start_rps) * e,
                          p.duration_secs)
      [] p.kind = "Sine" -> Ratio(FloorAtOne(SineRaw(p, elapsed)), 1)

\* Duration::from_secs_f64(1.0 / current_rps)
IntervalOf(rate) == from_secs_f64(Ratio(rate[2], rate[1]))

\* Faulty variant of LoopContinues: Burst ignores its time bound.
LoopContinues_NoTimeBound(p, sent, elapsed) == sent < TotalRequests

\* Faulty variant of LoopContinues: every pattern has a time bound.
LoopContinues_AllTimed(p, sent, elapsed) ==
    /\ sent < TotalRequests
    /\ elapsed < MaxDurationSecs

\* the loop conditions: i in 0..total_requests, sent < total_requests, and
\* for Burst also start.elapsed() < burst_duration
LoopContinues(p, sent, elapsed) ==
    /\ sent < TotalRequests
    /\ p.kind = "Burst" => elapsed < p.duration_secs

\* work_sender.send(..).is_err(): every Receiver is dropped
SendFails(rx) == rx = {}

\* generate_ramp: start.elapsed() >= total_duration
RampDeadline(p, elapsed) == elapsed >= p.duration_secs

\* the loop head starts an iteration: the rate and the interval for it (a
\* panic of from_secs_f64 ends the thread), request_factory(i),
\* crossbeam_channel::bounded(1)
LgLoop ==
    /\ gpc = "loop"
    /\ LoopContinues(pattern, gi, now)
    /\ interval' = IntervalOf(current_rps(pattern, now))
    /\ IF interval' < 0
       THEN /\ gpc' = "panicked"
            /\ ghist' = [ghist EXCEPT !.iterAt = now,
                                      !.rate = current_rps(pattern, now)]
            /\ UNCHANGED <<greq, replyAlive>>
       ELSE /\ \E id \in FactoryIds(gi) : greq' = [index |-> gi, id |-> id]
            /\ replyAlive' = [replyAlive EXCEPT ![gi] = TRUE]
            /\ gpc' = "send"
            /\ ghist' = [ghist EXCEPT !.factory = @ + 1, !.iterAt = now,
                                      !.rate = current_rps(pattern, now)]
    /\ UNCHANGED <<withMetrics, gi, queue, senders, receivers, replySlot,
                   replySends, wpc, wreq, wres, wlat, cached, mainpc, deq,
                   created, wlog, queuedAtClose, replyErrSeen>>
    /\ UNCHANGED <<pattern, sleepAt>>
    /\ UNCHANGED <<metricsVars, clientVars, benchVars, otherThanLoad>>

\* Faulty variant of LgSend: the generator goes on after a failed send.
LgSend_IgnoresError ==
    /\ gpc = "send"
    /\ IF SendFails(receivers)
       THEN /\ gpc' = "sleep"
            /\ replyAlive' = [replyAlive EXCEPT ![gi] = FALSE]
            /\ ghist' = [ghist EXCEPT
                           !.sends = @ + 1, !.failed = TRUE,
                           !.atFail = <<ghist.factory, ghist.sends + 1,
                                        ghist.sleeps>>]
            /\ UNCHANGED <<queue, sleepAt>>
       ELSE /\ ~SendBlocks(queue)
            /\ queue' = Append(queue, greq)
            /\ gpc' = "sleep"
            /\ sleepAt' = now
            /\ ghist' = [ghist EXCEPT
                           !.sends = @ + 1, !.sleeps = @ + 1,
                           !.enq = Append(@, gi), !.lastEnqAt = now]
            /\ UNCHANGED replyAlive
    /\ greq' = NoRequest
    /\ UNCHANGED <<withMetrics, gi, senders, receivers, replySlot,
                   replySends, wpc, wreq, wres, wlat, cached, mainpc, deq,
                   created, wlog, queuedAtClose, replyErrSeen>>
    /\ UNCHANGED <<pattern, interval>>
    /\ UNCHANGED <<metricsVars, clientVars, benchVars, otherThanLoad>>

\* work_sender.send((request, response_tx)): blocks while the queue is full;
\* Err breaks out of the loop, dropping the pair and the reply Receiver;
\* after Ok the sleep begins
LgSend ==
    /\ gpc = "send"
    /\ IF SendFails(receivers)
       THEN /\ gpc' = "break"
            /\ replyAlive' = [replyAlive EXCEPT ![gi] = FALSE]
            /\ ghist' = [ghist EXCEPT
                           !.sends = @ + 1, !.failed = TRUE,
                           !.atFail = <<ghist.factory, ghist.sends + 1,
                                        ghist.sleeps>>]
            /\ UNCHANGED <<queue, sleepAt>>
       ELSE /\ ~SendBlocks(queue)
            /\ queue' = Append(queue, greq)
            /\ gpc' = "sleep"
            /\ sleepAt' = now
            /\ ghist' = [ghist EXCEPT
                           !.sends = @ + 1, !.sleeps = @ + 1,
                           !.enq = Append(@, gi), !.lastEnqAt = now]
            /\ UNCHANGED replyAlive
    /\ greq' = NoRequest
    /\ UNCHANGED <<withMetrics, gi, senders, receivers, replySlot,
                   replySends, wpc, wreq, wres, wlat, cached, mainpc, deq,
                   created, wlog, queuedAtClose, replyErrSeen>>
    /\ UNCHANGED <<pattern, interval>>
    /\ UNCHANGED <<metricsVars, clientVars, benchVars, otherThanLoad>>

\* thread::sleep(interval) returns, not before the interval has passed; the
\* request is counted (sent += 1, or the next i)
LgWake ==
    /\ gpc = "sleep"
    /\ now - sleepAt >= interval \div NanosPerSec
    /\ gi' = gi + 1
    /\ replyAlive' = [replyAlive EXCEPT ![gi] = FALSE]
    /\ gpc' = IF pattern.kind = "Ramp" THEN "check" ELSE "loop"
    /\ UNCHANGED <<withMetrics, greq, queue, senders, receivers, replySlot,
                   replySends, wpc, wreq, wres, wlat, cached, mainpc, deq,
                   created, wlog, queuedAtClose, replyErrSeen>>
    /\ UNCHANGED <<pattern, interval, sleepAt, ghist>>
    /\ UNCHANGED <<metricsVars, clientVars, benchVars, otherThanLoad>>

\* generate_ramp: if start.elapsed() >= total_duration { break }
LgRampCheck ==
    /\ gpc = "check"
    /\ gpc' = IF RampDeadline(pattern, now) THEN "break" ELSE "loop"
    /\ UNCHANGED <<withMetrics, gi, greq, queue, senders, receivers,
                   replyAlive, replySlot, replySends, wpc, wreq, wres, wlat,
                   cached, mainpc, deq, created, wlog, queuedAtClose,
                   replyErrSeen>>
    /\ UNCHANGED <<pattern, interval, sleepAt, ghist>>
    /\ UNCHANGED <<metricsVars, clientVars, benchVars, otherThanLoad>>

\* the loop is over: generate returns start.elapsed() and drops work_sender
LgReturn ==
    /\ gpc \in {"loop", "break"}
    /\ gpc = "loop" => ~LoopContinues(pattern, gi, now)
    /\ gpc' = "done"
    /\ senders' = senders \ {"gen"}
    /\ ghist' = [ghist EXCEPT !.ret = now]
    /\ UNCHANGED <<withMetrics, gi, greq, queue, receivers, replyAlive,
                   replySlot, replySends, wpc, wreq, wres, wlat, cached,
                   mainpc, deq, created, wlog, queuedAtClose, replyErrSeen>>
    /\ UNCHANGED <<pattern, interval, sleepAt>>
    /\ UNCHANGED <<metricsVars, clientVars, benchVars, otherThanLoad>>

\* a receiver of the Work Queue takes the oldest pair
Consume ==
    /\ receivers # {}
    /\ queue # <<>>
    /\ queue' = Tail(queue)
    /\ UNCHANGED <<withMetrics, gpc, gi, greq, senders, receivers,
                   replyAlive, replySlot, replySends, wpc, wreq, wres, wlat,
                   cached, mainpc, deq, created, wlog, queuedAtClose,
                   replyErrSeen>>
    /\ UNCHANGED <<pattern, interval, sleepAt, ghist>>
    /\ UNCHANGED <<metricsVars, clientVars, benchVars, otherThanLoad>>

\* a receiver of the Work Queue is dropped
DropReceiver(w) ==
    /\ w \in receivers
    /\ receivers' = receivers \ {w}
    /\ UNCHANGED <<withMetrics, gpc, gi, greq, queue, senders, replyAlive,
                   replySlot, replySends, wpc, wreq, wres, wlat, cached,
                   mainpc, deq, created, wlog, queuedAtClose, replyErrSeen>>
    /\ UNCHANGED <<pattern, interval, sleepAt, ghist>>
    /\ UNCHANGED <<metricsVars, clientVars, benchVars, otherThanLoad>>

\* the monotonic clock behind Instant::now() and elapsed()
GenTick ==
    /\ now < MaxGenTime
    /\ now' = now + 1
    /\ UNCHANGED <<start_time, latencies, total_requests, successful_requests,
                   failed_requests, latLock, slocal, bret, builtAt,
                   pushCount, recDone, resetSeen, resetsActive, bclean>>
    /\ UNCHANGED <<harnessVars, metricsVars, clientVars, extVars>>

\* generate is entered, at elapsed time 0, with any pattern
GenInit ==
    /\ withMetrics = FALSE
    /\ HarnessInit
    /\ MetricsInit
    /\ ClientInit
    /\ BenchInit
    /\ ConnInit
    /\ ConfigInit
    /\ \E p \in Patterns : LoadInit(p)

GenNext ==
    \/ LgLoop \/ LgSend \/ LgWake \/ LgRampCheck \/ LgReturn
    \/ Consume
    \/ \E w \in Workers : DropReceiver(w)
    \/ GenTick

GenSpec == GenInit /\ [][GenNext]_vars


(***************************************************************************)
(* Properties                                                              *)
(***************************************************************************)
\* positions of a worker between process_request and the reply send
Answering ==
    {"metrics", "metrics_locked", "bench", "bench_total", "bench_outcome",
     "send"}

InFlight(i) == \E w \in Workers : wreq[w].index = i

\* the generator's send of index i returned Ok
Enqueued(i) == i < gi \/ (i = gi /\ gpc = "sleep")

RECURSIVE SumOver(_, _)
SumOver(f, S) ==
    IF S = {} THEN 0
    ELSE LET x == CHOOSE y \in S : TRUE IN f[x] + SumOver(f, S \ {x})

AllWorkersDone == \A w \in Workers : wpc[w] = "done"

\* C1: every pair a worker dequeued gets exactly one WorkResponse, built for
\* that request, and exactly one send on its own reply channel, whatever the
\* outcome and whether or not the reply Receiver is alive; a pair is never
\* answered twice, and once its worker is back at recv it has been answered.
C1_ExactlyOneResponse ==
    /\ \A i \in Indices :
         /\ replySends[i] <= created[i]
         /\ created[i] <= deq[i]
         /\ created[i] <= 1
         /\ replySends[i] <= 1
         /\ (deq[i] >= 1 /\ ~InFlight(i)) =>
                (created[i] = 1 /\ replySends[i] = 1)
    /\ \A w \in Workers :
         wpc[w] \in Answering =>
            /\ wres[w].id = wreq[w].id
            /\ wres[w].status \in ResponseStatus
            /\ created[wreq[w].index] = 1
            /\ replySends[wreq[w].index] = 0

\* a request was answered with its Receiver dropped, another with its
\* Receiver alive (the response sits in the slot), and every pair has been
\* answered
C1_Witness ==
    /\ replyErrSeen
    /\ \E i \in Indices : replySlot[i] = 1
    /\ \A i \in Indices : deq[i] = 1 /\ ~InFlight(i) /\ replySends[i] = 1

\* C2: once every Sender is dropped the workers drain the queue before any
\* of them exits: a worker has exited only if the queue is empty and closed,
\* no pair is dequeued twice, and when all workers have exited every pair
\* that was enqueued has been dequeued and processed exactly once.
C2_DrainBeforeExit ==
    /\ \A i \in Indices : deq[i] <= 1
    /\ \A w \in Workers :
         wpc[w] = "done" => (senders = {} /\ queue = <<>>)
    /\ AllWorkersDone =>
         \A i \in Indices :
            Enqueued(i) => (deq[i] = 1 /\ created[i] = 1 /\ ~InFlight(i))

\* all workers have exited, every request was enqueued, and pairs were still
\* queued when the last Sender was dropped
C2_Witness ==
    /\ AllWorkersDone
    /\ queuedAtClose >= 2
    /\ \A i \in Indices : Enqueued(i) /\ deq[i] = 1

\* C3: the Work Queue never holds more than queue_capacity pairs: enqueued
\* minus dequeued is at most the capacity at every moment.
C3_QueueBounded ==
    /\ Len(queue) <= queue_capacity
    /\ Cardinality({i \in Indices : Enqueued(i)}) - SumOver(deq, Indices)
          <= queue_capacity

\* the generator is blocked in send on a full queue
C3_Witness ==
    /\ gpc = "send"
    /\ receivers # {}
    /\ Len(queue) = queue_capacity
    /\ SendBlocks(queue)

\* C4: every value get_snapshot returns has total_processed =
\* total_succeeded + total_failed, and no counter is smaller in a snapshot
\* than in the snapshot returned before it.
C4_SnapshotConsistent ==
    /\ \A k \in 1..Len(msnaps) :
         msnaps[k].total_processed =
            msnaps[k].total_succeeded + msnaps[k].total_failed
    /\ Len(msnaps) = 2 =>
         /\ msnaps[1].total_processed <= msnaps[2].total_processed
         /\ msnaps[1].total_succeeded <= msnaps[2].total_succeeded
         /\ msnaps[1].total_failed <= msnaps[2].total_failed

\* two successive snapshots between which a success and a failure were
\* recorded, the second one taken while a third record is waiting to start
C4_Witness ==
    /\ Len(msnaps) = 2
    /\ msnaps[1].total_processed >= 1
    /\ msnaps[2].total_succeeded > msnaps[1].total_succeeded
    /\ msnaps[2].total_failed > msnaps[1].total_failed

Returned(t) == bret[t].at = "returned"

\* C5: a get_stats that ran concurrently with record_request calls (and no
\* reset) returns successful_requests + failed_requests = total_requests,
\* and total_requests equal to the number of samples its statistics were
\* computed from.
C5_StatsSinglePoint ==
    \A t \in Threads :
        (Returned(t) /\ bret[t].noReset) =>
            /\ bret[t].stats.successful_requests + bret[t].stats.failed_requests
                  = bret[t].stats.total_requests
            /\ bret[t].stats.total_requests = Len(bret[t].samples)

\* C6: with no reset, a get_stats taken when the record_request calls made
\* so far have all returned, and during which none is made, reports
\* total_requests = their number, successful_requests = those with
\* success = true and failed_requests = those with success = false.
C6_CountsMatchCalls ==
    \A t \in Threads :
        (Returned(t) /\ bret[t].noReset /\ bret[t].quiet) =>
            /\ bret[t].stats.total_requests = bret[t].doneAt[1] + bret[t].doneAt[2]
            /\ bret[t].stats.successful_requests = bret[t].doneAt[1]
            /\ bret[t].stats.failed_requests = bret[t].doneAt[2]
            /\ bret[t].stats.successful_requests + bret[t].stats.failed_requests
                  = bret[t].stats.total_requests

\* such a get_stats after MaxRecords calls of both kinds
C6_Witness ==
    \E t \in Threads :
        /\ Returned(t) /\ bret[t].noReset /\ bret[t].quiet
        /\ bret[t].doneAt[1] >= 1
        /\ bret[t].doneAt[2] >= 1
        /\ bret[t].doneAt[1] + bret[t].doneAt[2] = MaxRecords

Range(s) == {s[k] : k \in 1..Len(s)}
CountBelow(s, x) == Cardinality({k \in 1..Len(s) : s[k] < x})
CountUpTo(s, x) == Cardinality({k \in 1..Len(s) : s[k] <= x})

\* x is the element at 0-based index idx of s in ascending order
IsOrderStatistic(s, idx, x) ==
    /\ x \in Range(s)
    /\ CountBelow(s, x) <= idx
    /\ CountUpTo(s, x) >= idx + 1

\* C7: in every BenchmarkStats returned, min <= p50 <= p95 <= p99 <= max,
\* min and max bound every sample, and pXX is the sample at index
\* min(floor(count * fraction), count - 1) in ascending order; with no
\* sample the five values and avg are 0.
C7_PercentilesOrdered ==
    \A t \in Threads :
        Returned(t) =>
            LET st == bret[t].stats
                xs == bret[t].samples
                n == Len(xs)
            IN IF n = 0
               THEN /\ st.min_latency = 0 /\ st.p50_latency = 0
                    /\ st.p95_latency = 0 /\ st.p99_latency = 0
                    /\ st.max_latency = 0 /\ st.avg_latency = 0
               ELSE /\ st.min_latency <= st.p50_latency
                    /\ st.p50_latency <= st.p95_latency
                    /\ st.p95_latency <= st.p99_latency
                    /\ st.p99_latency <= st.max_latency
                    /\ \A x \in Range(xs) :
                          st.min_latency <= x /\ x <= st.max_latency
                    /\ st.min_latency \in Range(xs)
                    /\ st.max_latency \in Range(xs)
                    /\ IsOrderStatistic(xs, Min2((n * 50) \div 100, n - 1),
                                        st.p50_latency)
                    /\ IsOrderStatistic(xs, Min2((n * 95) \div 100, n - 1),
                                        st.p95_latency)
                    /\ IsOrderStatistic(xs, Min2((n * 99) \div 100, n - 1),
                                        st.p99_latency)

\* statistics of MaxRecords samples that arrived out of order, with the
\* median below the 99th percentile
C7_Witness ==
    \E t \in Threads :
        /\ Returned(t)
        /\ Len(bret[t].samples) = MaxRecords
        /\ bret[t].samples[1] > bret[t].samples[MaxRecords]
        /\ bret[t].stats.p50_latency < bret[t].stats.p99_latency

\* C8: a get_stats that follows a completed reset with no record_request
\* in between returns the zero-sample result: the three counters, the
\* latency fields and throughput_rps are 0; start_time is still the one
\* captured at construction, so total_duration keeps counting from there.
C8_ResetThenStats ==
    \A t \in Threads :
        (Returned(t) /\ bret[t].afterReset) =>
            /\ bret[t].samples = <<>>
            /\ bret[t].stats.total_requests = 0
            /\ bret[t].stats.successful_requests = 0
            /\ bret[t].stats.failed_requests = 0
            /\ bret[t].stats.min_latency = 0
            /\ bret[t].stats.max_latency = 0
            /\ bret[t].stats.avg_latency = 0
            /\ bret[t].stats.p50_latency = 0
            /\ bret[t].stats.p95_latency = 0
            /\ bret[t].stats.p99_latency = 0
            /\ bret[t].stats.throughput_rps = ZeroF64
            /\ start_time = builtAt
            /\ bret[t].stats.total_duration <= now - builtAt

\* such a get_stats after successes and failures were recorded and time has
\* passed since construction
C8_Witness ==
    \E t \in Threads :
        /\ Returned(t) /\ bret[t].afterReset
        /\ recDone[1] >= 1
        /\ recDone[2] >= 1
        /\ bret[t].stats.total_duration > 0

\* C9: a request with an empty id is answered Invalid with success = false,
\* whatever the pool and the database would do and whether or not the worker
\* has a cached connection; db_pool.get() is not called for it and
\* cached_connection is left as it was.
C9_EmptyIdInvalid ==
    \A w \in Workers :
        (wpc[w] \in Answering /\ wreq[w].id = <<>>) =>
            /\ wres[w].status = "Invalid"
            /\ wres[w].success = FALSE
            /\ wlog[w].pool_get = "none"
            /\ wlog[w].exec = "none"
            /\ cached[w] = wlog[w].cacheBefore

\* empty-id requests answered by a worker holding a cached connection and by
\* a worker holding none
C9_Witness ==
    \E w1, w2 \in Workers :
        /\ wpc[w1] \in Answering /\ wreq[w1].id = <<>>
        /\ cached[w1] = SomeConn
        /\ wpc[w2] \in Answering /\ wreq[w2].id = <<>>
        /\ cached[w2] = NoConn

\* what the first failing step of the processing of a request makes of it
ExpectedStatus(id, log) ==
    IF id = <<>> THEN "Invalid"
    ELSE IF log.pool_get = "err" THEN "ConnectionError"
    ELSE IF log.exec = "err" THEN "Failed"
    ELSE "Completed"

\* C10: the status of a response is decided by the first step that fails:
\* empty id gives Invalid, a failed acquisition ConnectionError, a failed
\* unit of work Failed, none Completed; success is true exactly when the
\* status is Completed.
C10_StatusByFirstFailure ==
    \A w \in Workers :
        wpc[w] \in Answering =>
            /\ wres[w].status = ExpectedStatus(wreq[w].id, wlog[w])
            /\ wres[w].success <=> (wres[w].status = "Completed")
            /\ (wlog[w].exec = "ok") <=> (wres[w].status = "Completed")
            /\ wlog[w].exec # "none" =>
                  (wlog[w].pool_get = "ok" \/ wlog[w].cacheBefore = SomeConn)

\* a ConnectionError response and a Failed response being answered at once
C10_Witness ==
    \E w1, w2 \in Workers :
        /\ wpc[w1] \in Answering /\ wres[w1].status = "ConnectionError"
        /\ wlog[w1].pool_get = "err"
        /\ wpc[w2] \in Answering /\ wres[w2].status = "Failed"
        /\ wlog[w2].exec = "err"

\* C11 (as amended): a worker that answers a request with status
\* ConnectionError has no cached handle afterwards and keeps none until it
\* processes its next request.  If that next request passes validation the
\* worker calls db_pool.get() for it, and executes the INSERT only on the
\* handle this call returned; if the next request has an empty id it is
\* rejected before the connection step, with no acquisition and no handle
\* used.
C11_FreshAcquisition ==
    \A w \in Workers :
        /\ (wpc[w] = "send" /\ wres[w].status = "ConnectionError")
              => cached[w] = NoConn
        /\ (wprev[w] = "ConnectionError" /\ wpc[w] \in {"recv", "process"})
              => cached[w] = NoConn
        /\ (wprev[w] = "ConnectionError" /\ wpc[w] = "send") =>
              /\ wlog[w].cacheBefore = NoConn
              /\ Len(wreq[w].id) > 0 => wlog[w].pool_get \in {"ok", "err"}
              /\ Len(wreq[w].id) = 0 =>
                    wlog[w].pool_get = "none" /\ wlog[w].exec = "none"
              /\ wlog[w].exec # "none" => wlog[w].pool_get = "ok"

\* C11 as stated: after a ConnectionError answer the worker has no cached
\* handle, and processing its next request always attempts an acquisition
\* from the pool.
C11_AlwaysAcquires ==
    \A w \in Workers :
        /\ (wpc[w] = "send" /\ wres[w].status = "ConnectionError")
              => cached[w] = NoConn
        /\ (wprev[w] = "ConnectionError" /\ wpc[w] = "send") =>
              /\ wlog[w].cacheBefore = NoConn
              /\ wlog[w].pool_get \in {"ok", "err"}

\* a worker answered ConnectionError and then completed a valid request on
\* a handle it acquired for it
C11_Witness ==
    \E w \in Workers :
        /\ wprev[w] = "ConnectionError"
        /\ wpc[w] = "send"
        /\ Len(wreq[w].id) > 0
        /\ wlog[w].pool_get = "ok"
        /\ wres[w].status = "Completed"

\* C12: a cached handle that has gone bad makes at most one request of its
\* worker fail, and once the worker has answered that request it has
\* discarded the handle.
C12_BadHandleCostsOneRequest ==
    \A w \in Workers :
        /\ badFails[w] <= 1
        /\ (badFails[w] >= 1 /\ wpc[w] = "recv") => cached[w] = NoConn

\* workers whose position is in S, and those of them holding a response
\* with the given success flag
WorkersAt(S) == {w \in Workers : wpc[w] \in S}
WorkersAtWith(S, flag) == {w \in WorkersAt(S) : wres[w].success = flag}

\* C13: with metrics and a benchmark collector attached, a request is
\* counted once in the Metrics (when its worker enters record_success or
\* record_failure) and once in the benchmark (one latency, one
\* total_requests increment), both with the success flag of its response,
\* before its response is sent; once all workers have exited,
\* total_processed and the benchmark's total_requests equal the number of
\* requests the generator enqueued, and the success and failure counters of
\* the two aggregators agree.
C13_OneRecordPerRequest ==
    withMetrics =>
        LET answered == SumOver(replySends, Indices) IN
        /\ metrics.total_processed = answered + Cardinality(WorkersAt(
              {"metrics_locked", "bench", "bench_total", "bench_outcome",
               "send"}))
        /\ Len(latencies) = answered + Cardinality(WorkersAt(
              {"bench_total", "bench_outcome", "send"}))
        /\ total_requests = answered + Cardinality(WorkersAt(
              {"bench_outcome", "send"}))
        /\ successful_requests + failed_requests =
              answered + Cardinality(WorkersAt({"send"}))
        /\ metrics.total_succeeded = successful_requests
              + Cardinality(WorkersAtWith(
                   {"bench", "bench_total", "bench_outcome"}, TRUE))
        /\ metrics.total_failed = failed_requests
              + Cardinality(WorkersAtWith(
                   {"bench", "bench_total", "bench_outcome"}, FALSE))
        /\ AllWorkersDone =>
              /\ metrics.total_processed = gi
              /\ total_requests = gi
              /\ metrics.total_succeeded = successful_requests
              /\ metrics.total_failed = failed_requests
              /\ metrics.total_succeeded + metrics.total_failed = gi

\* all workers have exited after the generator enqueued every request, some
\* of which succeeded and some of which failed
C13_Witness ==
    /\ withMetrics
    /\ AllWorkersDone
    /\ gi = TotalRequests
    /\ metrics.total_processed = TotalRequests
    /\ metrics.total_succeeded >= 1
    /\ metrics.total_failed >= 1

\* C17: a worker's loop ends only from recv, when the queue is empty and
\* every Sender is dropped; process_request always hands its response on
\* towards the send, and after the send of any response, failed or not, the
\* worker is back at recv for its next request.
C17_NoExitOnFailure ==
    [][\A w \in Workers :
          /\ (wpc[w] # "done" /\ wpc'[w] = "done") =>
                wpc[w] = "recv" /\ queue = <<>> /\ senders = {}
          /\ (wpc[w] = "process" /\ wpc'[w] # "process") =>
                wpc'[w] = IF withMetrics THEN "metrics" ELSE "send"
          /\ (wpc[w] = "send" /\ wpc'[w] # "send") => wpc'[w] = "recv"
      ]_vars

\* every request was answered with a failure, by fewer workers than there
\* are requests, so some worker answered a failure and then took another
\* request; all workers have exited, after the queue was closed and drained
C17_Witness ==
    /\ withMetrics
    /\ TotalRequests > NumWorkers
    /\ AllWorkersDone
    /\ metrics.total_failed = TotalRequests
    /\ SumOver(replySends, Indices) = TotalRequests

\* C18: whenever no update_config call holds the write lock, the stored
\* configuration is the default (3, 5000, true) or exactly the triple passed
\* to some update_config call, unchanged; every getter read the
\* configuration in such a state and returned its field of it, also with
\* several update_config calls and getters running concurrently.
C18_UpdateAtomic ==
    LET Whole == {SharedConfig_default} \cup cfgPassed IN
    /\ SharedConfig_default =
          [max_retries |-> 3, timeout_ms |-> 5000, enabled |-> TRUE]
    /\ configLock = NoThread => config \in Whole
    /\ \A c \in Clients :
          cfgGot[c] # NoGot =>
             /\ cfgGot[c].read \in Whole
             /\ cfgGot[c].value = cfgGot[c].read[cfgGot[c].field]
    /\ \A c \in Clients :
          cpc[c] # Idle => configLock = c /\ cpc[c].args \in cfgPassed

\* after two different updates, one of them with timeout_ms = 0, a getter
\* returned the zero timeout, and every update_config call has returned
C18_Witness ==
    /\ Cardinality(cfgPassed) >= 2
    /\ \E c \in Clients :
          /\ cfgGot[c] # NoGot
          /\ cfgGot[c].field = "timeout_ms"
          /\ cfgGot[c].value = 0
          /\ cfgGot[c].read # SharedConfig_default
    /\ configLock = NoThread
    /\ config.timeout_ms = 0
    /\ cfgCalls = MaxConfigCalls

C15_RampStopsByDuration ==
    pattern.kind = "Ramp" => ghist.lastEnqAt <= pattern.duration_secs

\* C16: with any pattern, once a send has failed because every Receiver is
\* dropped, the generator makes no further call of the factory, of send or
\* of sleep, holds no request, and is on its way out of the loop or has
\* returned a duration; it has not panicked.
C16_SendFailureEndsGeneration ==
    ghist.failed =>
        /\ gpc \in {"break", "done"}
        /\ <<ghist.factory, ghist.sends, ghist.sleeps>> = ghist.atFail
        /\ greq = NoRequest
        /\ gpc = "done" => ghist.ret >= 0

\* a Ramp run whose second send failed has returned
C16_Witness ==
    /\ pattern.kind = "Ramp"
    /\ ghist.failed
    /\ Len(ghist.enq) = 1
    /\ ghist.atFail = <<2, 2, 1>>
    /\ gpc = "done"
    /\ ghist.ret >= 0

\* C19: with the Burst pattern at most total_requests requests are built
\* and enqueued, and every iteration, with its send, starts at an elapsed
\* time below duration, so a duration of 0 enqueues nothing; a Ramp run
\* that ends without a failed send has enqueued at least one request when
\* total_requests >= 1, whatever its duration.
C19_BurstWhicheverFirst ==
    /\ pattern.kind = "Burst" =>
          /\ Len(ghist.enq) <= TotalRequests
          /\ ghist.factory <= TotalRequests
          /\ ghist.iterAt < pattern.duration_secs
          /\ pattern.duration_secs = 0 =>
                ghist.factory = 0 /\ ghist.enq = <<>>
    /\ (pattern.kind = "Ramp" /\ gpc = "done" /\ ~ghist.failed
          /\ TotalRequests >= 1) => Len(ghist.enq) >= 1

\* a Burst run was stopped by its time bound after enqueuing some but not
\* all requests
C19_Witness ==
    /\ pattern.kind = "Burst"
    /\ gpc = "done"
    /\ ~ghist.failed
    /\ Len(ghist.enq) >= 1
    /\ Len(ghist.enq) < TotalRequests
    /\ ghist.ret >= pattern.duration_secs

\* C20 (as amended): with the Sine pattern the rate from which a delay is
\* computed is at least 1 request per second for every base_rps, amplitude,
\* period and elapsed time, so the delay is never negative or infinite and
\* is at most one second; it is at least one nanosecond for rates up to
\* 10^9 per second (above that the Duration rounds to zero).  Sine has no
\* time cutoff: a run that ends without a failed send has enqueued exactly
\* total_requests requests.
C20_SineRateFloored ==
    pattern.kind = "Sine" =>
        /\ gpc # "panicked"
        /\ ghist.factory > 0 =>
              /\ ghist.rate[2] = 1
              /\ ghist.rate[1] >= 1
              /\ interval >= 0
              /\ interval <= NanosPerSec
              /\ ghist.rate[1] <= NanosPerSec => interval >= 1
        /\ (gpc = "done" /\ ~ghist.failed) => Len(ghist.enq) = TotalRequests

\* C20 as stated: the Sine rate is at least 1, every delay is positive and
\* at most one second, and the run enqueues exactly total_requests requests
\* unless a send fails.
C20_DelayPositive ==
    pattern.kind = "Sine" =>
        /\ ghist.factory > 0 =>
              /\ ghist.rate[1] >= 1
              /\ interval > 0
              /\ interval <= NanosPerSec
        /\ (gpc = "done" /\ ~ghist.failed) => Len(ghist.enq) = TotalRequests

\* a Sine run with amplitude above base_rps computed a delay of one second
\* where the unfloored rate is negative, and went on to enqueue everything
C20_Witness ==
    /\ pattern.kind = "Sine"
    /\ pattern.amplitude > pattern.base_rps
    /\ pattern.period_secs > 0
    /\ gpc = "done"
    /\ ~ghist.failed
    /\ Len(ghist.enq) = TotalRequests
    /\ ghist.iterAt = 3
    /\ ghist.rate = <<1, 1>>
    /\ interval = NanosPerSec

\* C24: whenever no record_request, get_stats or reset call is in progress
\* on any handle of the BenchmarkCollector, the number of stored latency
\* samples equals total_requests and total_requests equals
\* successful_requests + failed_requests.
C24_QuiescentConsistent ==
    (\A c \in Clients : cpc[c] = Idle) =>
        /\ Len(latencies) = total_requests
        /\ total_requests = successful_requests + failed_requests

\* calls of response_tx.send made so far, over all reply channels
RepliesSent == SumOver(replySends, Indices)

\* C22: in a metrics-enabled pool every response is sent after its request
\* was counted: the responses sent, together with those of the workers that
\* have reached the send, never exceed total_processed, the benchmark's
\* total_requests or its sample count; a worker reaches the send only after
\* both record calls have returned; the counts never decrease, and a
\* snapshot taken by get_snapshot counts at least every response sent
\* before it.
C22_RecordedBeforeSent ==
    [][withMetrics =>
         /\ LET due == RepliesSent' + Cardinality(WorkersAt({"send"}))' IN
              /\ due <= metrics'.total_processed
              /\ due <= total_requests'
              /\ due <= Len(latencies')
         /\ \A w \in Workers :
               wpc'[w] = "send" => metricsLock' # w /\ latLock' # w
         /\ RepliesSent' > RepliesSent =>
               /\ RepliesSent < metrics.total_processed
               /\ RepliesSent < total_requests
         /\ metrics'.total_processed >= metrics.total_processed
         /\ total_requests' >= total_requests
         /\ (mainpc = "snapshot" /\ mainpc' # "snapshot") =>
               msnaps'[Len(msnaps')].total_processed >= RepliesSent
      ]_vars

\* main holds a snapshot taken after every response was sent, each into a
\* reply channel whose Receiver was still alive, and it counts them all
C22_Witness ==
    /\ withMetrics
    /\ mainpc = "stats_clone"
    /\ msnaps # <<>>
    /\ RepliesSent = TotalRequests
    /\ msnaps[Len(msnaps)].total_processed = TotalRequests
    /\ ~replyErrSeen

\* handles the pool has given to workers; a worker never gives one back
\* while it runs
CheckedOut == SumOver(acquired, Workers)

\* C23: a worker calls db_pool.get() only for a request it starts without a
\* cached handle; once it holds a handle it keeps that handle through every
\* later request, whatever their outcome, and is given no other; it holds a
\* handle exactly when the pool has given it one, which happens at most
\* once.  So the handles checked out never exceed worker_count, which is
\* below the pool's max_size.
C23_OneHandlePerWorker ==
    [][/\ \A w \in Workers :
            /\ acquired'[w] <= 1
            /\ (cached'[w] = SomeConn) <=> (acquired'[w] = 1)
            /\ cached[w] = SomeConn =>
                  cached'[w] = SomeConn /\ acquired'[w] = acquired[w]
            /\ (wpc'[w] = "send" /\ wlog'[w].pool_get # "none") =>
                  wlog'[w].cacheBefore = NoConn
            /\ (wpc'[w] = "send" /\ wlog'[w].cacheBefore = SomeConn) =>
                  wlog'[w].pool_get = "none"
       /\ CheckedOut' <= NumWorkers
       /\ NumWorkers < max_size
      ]_vars

\* every worker holds the handle it was given, and one of them has just
\* completed a request on its cached handle without asking the pool
C23_Witness ==
    /\ CheckedOut = NumWorkers
    /\ \A w \in Workers : cached[w] = SomeConn
    /\ \E w \in Workers :
          /\ wpc[w] = "send"
          /\ wlog[w].cacheBefore = SomeConn
          /\ wlog[w].pool_get = "none"
          /\ wres[w].status = "Completed"

\* the generator has returned, every worker has left its loop and main has
\* joined them all
Terminated == gpc = "done" /\ AllWorkersDone /\ mainpc = "done"

\* a thread holds at most one of the mutexes that are held across statements,
\* and holds it only where it needs no other of them: no cycle of waiting
\* threads can form
LocksAcyclic ==
    /\ metricsLock # NoThread =>
          /\ metricsLock \in Workers
          /\ wpc[metricsLock] = "metrics_locked"
          /\ latLock # metricsLock
    /\ latLock # NoThread =>
          /\ latLock \in Workers
          /\ wpc[latLock] \in {"bench_total", "bench_outcome"}
    /\ configLock = NoThread

====
